---- MODULE Spec2Model ----
(***************************************************************************)
(* Heapster: the fan-out sink manager (sinks/manager.go), the Wavefront    *)
(* sink's connection handling, and the node aggregator                     *)
(* (metrics/processors/node_aggregator.go).                                *)
(*                                                                         *)
(* Time is discrete and kept as ages: the age of a pending ExportData      *)
(* call, of a pending Stop call and of a sink's running ExportData.        *)
(* Computation takes no time: time passes only when every task is blocked  *)
(* (in a channel operation no partner is ready for, in a timer that has    *)
(* not expired, or inside a sink's ExportData).  A channel rendezvous that *)
(* is possible, an expired timer and a WaitGroup whose counter is zero are *)
(* therefore taken before time advances (see Urgent and Tick).             *)
(***************************************************************************)
EXTENDS Integers, Sequences, FiniteSets, TLC

\* ------------------------------------------------------------------ bounds
\* Number of SinkManager.ExportData calls and of SinkManager.Stop calls.
MaxCalls == 2
MaxStops == 1
\* Largest value of the aggregated metric in an input metric set.
MaxValue == 1

\* ------------------------------------------------------------------ program constants
\* One time unit of the general model is 20 s.
DefaultSinkExportDataTimeout == 1
DefaultSinkStopTimeout == 3

\* The sinks handed to NewDataSinkManager.  "B" is the in-process metric sink.
Holders == {"A", "B"}
MetricSinkHolder == "B"

VARIABLES
    cfg,        \* constructor arguments, the sinks' kinds and the environment's timing
    clock,      \* time since start (kept only when the environment submits on a schedule)
    callState,  \* per ExportData call: "none", "active", "returned"
    callAge,    \* time since the call was made, while it is active
    pusher,     \* per call and holder: the push goroutine: "none", "waiting", "sent", "timedout"
    hstate,     \* per holder goroutine: "select", "export", "exited"
    hbusy,      \* time since the holder's current sink.ExportData began
    received,   \* per holder: the batches sink.ExportData was invoked with, in order
    inFlight,   \* per holder: invocations of sink.ExportData that have not returned
    stopCount,  \* per holder: invocations of sink.Stop()
    stopper,    \* per Stop call and holder: the stop goroutine: "none", "waiting", "sent",
                \* "timedout"
    stopAge,    \* time since the Stop call was made, while a stop goroutine of it waits
    conn,       \* per holder: WavefrontSink.Conn: "nil", "open", "closed"
    panicked,   \* a goroutine panicked: the process is gone
    overlap,    \* history: two ExportData calls have been in progress at the same time
    idleSeen,   \* history: per active call and holder that has not taken its batch, whether
                \* the holder was at its select while the call's timer ran: "no", "atCall"
                \* (when the call was made) or "later"
    aggInput,   \* NodeAggregator.Process: batch.MetricSets as it was when Process was called
    aggSets,    \* the metric sets batch.MetricSets points to, by key (aggregate changes the
                \* parent in place, and result.MetricSets points to the same sets)
    aggTodo,    \* keys of batch.MetricSets the range loop has not visited yet
    aggResult,  \* keys of result.MetricSets
    aggWarned,  \* pods skipped with "Failed to find node"
    aggRet,     \* "idle" (Process not called), "running", "ok" (returned &result, nil),
                \* "error" (returned nil, err)
    aggKind,    \* the processor whose Process is called: its Name(), "none" when idle
    aggStamp,   \* the Timestamp of the input batch and that of the result
    argSources, \* main: the --source flags, by their keys
    argFlags,   \* main: metric_resolution in seconds; whether tls_cert, tls_key and
                \* tls_client_ca are given
    failing,    \* main: the constructors that return an error in this run
    mainPc,     \* main: the step it is at: "flags", "sources", "enrichers", "aggregators",
                \* "autoscaling", "manager", "started" or "fatal" (glog.Fatal: exited)
    dataProcessors, \* main: the processor chain built so far
    processed,  \* the processors that have processed the current batch, in order
    ssCfg,      \* StatStore: the arguments of NewStatStore: epsilon and capacity
    ssBuffer,   \* the committed resolutions, newest first: Timestamp, Value (the bucket)
                \* and Max (the greatest value put in that resolution)
    ssLastPut,  \* the open resolution: its stamp and the sum, count and greatest of the
                \* values put in it; stamp NoTime before the first Put
    ssArg,      \* the resolution the timestamp of the latest Put call falls in
    ssRet,      \* what the latest Put call returned: "none", "ok", "error"
    ssOpenValues, \* history: how often each value was put in the open resolution
    ssFirst,    \* history: the resolution of the first Put
    ssCache,    \* the memoised Average: whether it is valid, and its value
    ssAvgRet,   \* what Average() returned when it was last called after the latest Put
    hkProgram,  \* the polling loop that runs: "housekeep", "doWork", "none"
    hkNow,      \* time.Now(), in units of half a poll period
    hkPc,       \* the loop's position: "select", "getinfo", "ingetinfo", "store",
                \* "instore", "setlast" (housekeep); "listMinions", "fetchData",
                \* "listPods", "append" (doWork); "returned"
    hkSrc,      \* housekeep: the index of the source the range loop is at
    hkTickPending, \* a tick waits in ticker.C (a channel of capacity one)
    hkCycle,    \* the number of ticks received
    hkLastGet,  \* housekeep: lastGet
    hkWindow,   \* history: per source, the start and end of its latest GetInfo call
    hkCalls,    \* history: the calls completed in the present tick
    hkFailed,   \* history: a call of the present tick returned an error
    hkCycleStart, \* history: when the present tick was received
    ksProgram,  \* the source whose GetInfo runs: "kube", "external", "none"
    ksStatus,   \* kube: the Status of each pod the API server lists
    ksPc,       \* GetInfo's position: "idle", "pods", "nodes"
    ksTodoPods, \* kube: the pods the range loop has yet to visit, in order
    ksTodoNodes, \* the nodes the range loop over the map has yet to visit
    ksNodeErrors, \* KubeSource.nodeErrors
    ksPodErrors, \* KubeSource.podErrors
    ksGoodNodes, \* KubeSource.goodNodes
    ksData,     \* the pods and nodes whose stats the running call has collected
    ksRet,      \* what the latest GetInfo returned
    ksFailed,   \* history: the pods and nodes whose stats request failed, all calls
    ksCalls,    \* history: the number of calls of GetInfo
    apiPosted,  \* history: the lists of sink URIs posted to the sinks endpoint
    apiGot,     \* what the client's latest getSinks returned
    mtSpec,     \* the ContainerSpec handed to the metrics' HasValue and GetValue
    mtOut,      \* per metric, whether it has a value and the value GetValue returned
    expValues,  \* the values handed to exportTimestampedMetricValue
    expResult,  \* the MetricResult it returned
    knErrors,   \* kubeNodes.nodeErrors
    knGood,     \* kubeNodes.goodNodes
    knItems,    \* the Items of the NodeList the latest List returned, by node name
    knRet,      \* what the latest List returned: "none", "ok", "error"
    knFailed,   \* history: the nodes whose IP lookup failed in the latest List
    knCalls,    \* history: the number of calls of List
    ifNow,      \* InfluxdbSink: time.Now(), in units of half the buffer duration
    ifLastWrite, \* InfluxdbSink.lastWrite
    ifSeries,   \* InfluxdbSink.series: the buffered series, each by its number
    ifWrites,   \* history: the batches handed to WriteSeriesWithTimePrecision, in
                \* order, and whether the write failed
    ifNext,     \* history: the number of series appended so far; they are numbered
                \* in the order they are appended
    ifCall,     \* history: what the latest StoreData call returned, "ok" or "error",
                \* and the number of series it appended
    gcNow,      \* gcStore: time.Now(), in units of half the buffer duration
    gcData,     \* the elements in the wrapped TimeStore: the timestamp each was put
                \* with and the number of the operation that put it
    gcRet,      \* the latest operation on the gcStore: its name, what it returned
                \* ("ok", "error", or "none" when it did not return), whether the
                \* wrapped Put succeeded, and the earlier elements it removed
    gcPc,       \* "run", or "fatal" after glog.Fatalf has ended the process
    gcOps,      \* history: the number of operations on the gcStore
    gcmExported, \* gcmDriver.exportedMetrics: the names registered
    gcmSent,    \* history: the requests sent to the backend, in order
    gcmRet      \* history: the latest call on the driver: its number, its name, the
                \* metrics it was given and the error it returned, "none" when nil

aggVars == <<aggInput, aggSets, aggTodo, aggResult, aggWarned, aggRet, aggKind, aggStamp>>
mgrVars == <<cfg, clock, callState, callAge, pusher, hstate, hbusy, received, inFlight,
             stopCount, stopper, stopAge, conn, panicked, overlap, idleSeen>>
mainVars == <<argSources, argFlags, failing, mainPc, dataProcessors, processed>>
ssVars == <<ssCfg, ssBuffer, ssLastPut, ssArg, ssRet, ssOpenValues, ssFirst, ssCache,
           ssAvgRet>>
hkVars == <<hkProgram, hkNow, hkPc, hkSrc, hkTickPending, hkCycle, hkLastGet, hkWindow,
           hkCalls, hkFailed, hkCycleStart>>
ksVars == <<ksProgram, ksStatus, ksPc, ksTodoPods, ksTodoNodes, ksNodeErrors, ksPodErrors,
           ksGoodNodes, ksData, ksRet, ksFailed, ksCalls>>
apiVars == <<apiPosted, apiGot>>
mtVars == <<mtSpec, mtOut>>
expVars == <<expValues, expResult>>
knVars == <<knErrors, knGood, knItems, knRet, knFailed, knCalls>>
ifVars == <<ifNow, ifLastWrite, ifSeries, ifWrites, ifNext, ifCall>>
gcVars == <<gcNow, gcData, gcRet, gcPc, gcOps>>
gcmVars == <<gcmExported, gcmSent, gcmRet>>
sinkVars == <<knVars, ifVars, gcVars, gcmVars>>
extVars == <<hkVars, ksVars, apiVars, mtVars, expVars, sinkVars>>
restVars == <<mainVars, ssVars, extVars>>
vars == <<mgrVars, aggVars, restVars>>

Calls == 1..cfg.maxCalls
Stops == 1..cfg.maxStops

Max(a, b) == IF a >= b THEN a ELSE b
Min(a, b) == IF a <= b THEN a ELSE b

\* ------------------------------------------------------------------ configurations
\* Sinks of unknown speed; ExportData and Stop are called at arbitrary times.
GeneralCfg ==
    [exportDataTimeout |-> DefaultSinkExportDataTimeout,
     stopTimeout |-> DefaultSinkStopTimeout,
     period |-> 0,
     horizon |-> 0,
     maxCalls |-> MaxCalls,
     maxStops |-> MaxStops,
     minDur |-> [h \in Holders |-> 0],
     maxDur |-> [h \in Holders |-> -1],
     kind |-> [h \in Holders |-> "generic"]]

MgrInit(c) ==
    /\ cfg = c
    /\ clock = 0
    /\ callState = [i \in 1..c.maxCalls |-> "none"]
    /\ callAge = [i \in 1..c.maxCalls |-> 0]
    /\ pusher = [i \in 1..c.maxCalls |-> [h \in Holders |-> "none"]]
    /\ hstate = [h \in Holders |-> "select"]
    /\ hbusy = [h \in Holders |-> 0]
    /\ received = [h \in Holders |-> <<>>]
    /\ inFlight = [h \in Holders |-> 0]
    /\ stopCount = [h \in Holders |-> 0]
    /\ stopper = [s \in 1..c.maxStops |-> [h \in Holders |-> "none"]]
    /\ stopAge = [s \in 1..c.maxStops |-> 0]
    /\ conn = [h \in Holders |-> "nil"]
    /\ panicked = FALSE
    /\ overlap = FALSE
    /\ idleSeen = [i \in 1..c.maxCalls |-> [h \in Holders |-> "no"]]

\* No NodeAggregator.Process call is in progress.
AggIdle ==
    /\ aggInput = <<>>
    /\ aggSets = <<>>
    /\ aggTodo = {}
    /\ aggResult = {}
    /\ aggWarned = {}
    /\ aggRet = "idle"
    /\ aggKind = "none"
    /\ aggStamp = <<>>

\* main has not been started.
MainIdle ==
    /\ argSources = <<>>
    /\ argFlags = <<>>
    /\ failing = {}
    /\ mainPc = "idle"
    /\ dataProcessors = <<>>
    /\ processed = <<>>

NoTime == -1
NoPoint == [Timestamp |-> NoTime, Value |-> 0]
NoLastPut == [stamp |-> NoTime, sum |-> 0, count |-> 0, max |-> 0]

NoCache == [valid |-> FALSE, average |-> 0]
NotCalled == [called |-> FALSE, err |-> FALSE, value |-> 0]

\* No StatStore has been made.
StoreIdle ==
    /\ ssCfg = [epsilon |-> 0, capacity |-> 0]
    /\ ssBuffer = <<>>
    /\ ssLastPut = NoLastPut
    /\ ssArg = NoTime
    /\ ssRet = "none"
    /\ ssOpenValues = <<>>
    /\ ssFirst = NoTime
    /\ ssCache = NoCache
    /\ ssAvgRet = NotCalled

\* No polling loop runs.
HkIdle ==
    /\ hkProgram = "none"
    /\ hkNow = 0
    /\ hkPc = "none"
    /\ hkSrc = 0
    /\ hkTickPending = FALSE
    /\ hkCycle = 0
    /\ hkLastGet = 0
    /\ hkWindow = <<>>
    /\ hkCalls = {}
    /\ hkFailed = FALSE
    /\ hkCycleStart = 0

\* No source runs.
KsIdle ==
    /\ ksProgram = "none"
    /\ ksStatus = <<>>
    /\ ksPc = "none"
    /\ ksTodoPods = <<>>
    /\ ksTodoNodes = {}
    /\ ksNodeErrors = <<>>
    /\ ksPodErrors = <<>>
    /\ ksGoodNodes = {}
    /\ ksData = {}
    /\ ksRet = <<>>
    /\ ksFailed = {}
    /\ ksCalls = 0

\* No request has been sent to the sinks endpoint.
ApiIdle ==
    /\ apiPosted = <<>>
    /\ apiGot = <<>>

\* No metric is computed.
MtIdle ==
    /\ mtSpec = <<>>
    /\ mtOut = <<>>

\* No metric values are exported.
ExpIdle ==
    /\ expValues = <<>>
    /\ expResult = <<>>

\* kubeNodes.List is not called.
KnIdle ==
    /\ knErrors = <<>>
    /\ knGood = {}
    /\ knItems = <<>>
    /\ knRet = "none"
    /\ knFailed = {}
    /\ knCalls = 0

\* No InfluxdbSink stores data.
IfIdle ==
    /\ ifNow = 0
    /\ ifLastWrite = 0
    /\ ifSeries = <<>>
    /\ ifWrites = <<>>
    /\ ifNext = 0
    /\ ifCall = <<>>

\* No gcStore is in use.
GcIdle ==
    /\ gcNow = 0
    /\ gcData = {}
    /\ gcRet = <<>>
    /\ gcPc = "none"
    /\ gcOps = 0

\* No gcmDriver is in use.
GcmIdle ==
    /\ gcmExported = {}
    /\ gcmSent = <<>>
    /\ gcmRet = <<>>

SinkIdle == KnIdle /\ IfIdle /\ GcIdle /\ GcmIdle
ExtIdle == HkIdle /\ KsIdle /\ ApiIdle /\ MtIdle /\ ExpIdle /\ SinkIdle
RestIdle == MainIdle /\ StoreIdle /\ ExtIdle

InitWith(c) == MgrInit(c) /\ AggIdle /\ RestIdle

\* As GeneralCfg, but the in-process metric sink's ExportData returns within the
\* instant it is called in, that is, in less than exportDataTimeout.
FastMetricCfg ==
    [GeneralCfg EXCEPT !.maxDur = [h \in Holders |->
                                    IF h = MetricSinkHolder THEN 0 ELSE -1]]

\* As GeneralCfg, but sink "A" is a WavefrontSink.
WavefrontCfg ==
    [GeneralCfg EXCEPT !.kind = [h \in Holders |->
                                    IF h = "A" THEN "wavefront" ELSE "generic"]]

\* The sink isolation scenario, in units of 5 s: exportDataTimeout is 20 s, sink "A"
\* takes 25 s per ExportData, sink "B" returns at once, one batch is submitted every
\* 10 s from time 0 on, and the run is observed until 60 s.
ScenarioCfg ==
    [exportDataTimeout |-> 4 * DefaultSinkExportDataTimeout,
     stopTimeout |-> 4 * DefaultSinkStopTimeout,
     period |-> 2,
     horizon |-> 12,
     maxCalls |-> 6,
     maxStops |-> 0,
     minDur |-> [h \in Holders |-> IF h = "A" THEN 5 ELSE 0],
     maxDur |-> [h \in Holders |-> IF h = "A" THEN 5 ELSE 0],
     kind |-> [h \in Holders |-> "generic"]]

Init == InitWith(GeneralCfg)
InitMetric == \E c \in {GeneralCfg, FastMetricCfg} : InitWith(c)
InitWavefront == InitWith(WavefrontCfg)
InitScenario == InitWith(ScenarioCfg)

\* ------------------------------------------------------------------ helpers
\* Variants of the holder's readiness that the code does not have: a holder that
\* serves one batch only, and a holder that receives while its sink is exporting.
HolderReadyOnce(h) == hstate[h] = "select" /\ received[h] = <<>>
HolderReadyWhileExporting(h) == hstate[h] \in {"select", "export"}

\* A variant that the code does not have: a holder that still receives after it has
\* stopped its sink.
HolderReadyAfterStop(h) == hstate[h] \in {"select", "exited"}

\* The holder goroutine is blocked in its select, ready to receive.
HolderReady(h) == hstate[h] = "select"

\* Variants of the push timer that the code does not have: no wait at all, and a
\* wait of one time unit more.
PushTimerFiredAtOnce(c) == TRUE
PushTimerFiredLate(c) == callAge[c] >= cfg.exportDataTimeout + 1

\* time.After(this.exportDataTimeout) of a push goroutine of call c has fired.
PushTimerFired(c) == callAge[c] >= cfg.exportDataTimeout

\* A variant of the stop timer that the code does not have: no wait at all.
StopTimerFiredAtOnce(s) == TRUE

\* A variant of the stop timer that the code does not have: a stop goroutine that
\* waits for its holder without a time limit.
StopTimerNeverFires(s) == FALSE

\* time.After(this.stopTimeout) of a stop goroutine of Stop call s has fired.
StopTimerFired(s) == stopAge[s] >= cfg.stopTimeout

\* Variants of wg.Wait() that the code does not have: a wait for one push goroutine
\* only, and a wait that also lasts until the sinks have finished the batch.
AnyPushDone(c) == \E h \in Holders : pusher[c][h] \in {"sent", "timedout"}
AllSinksDone(c) ==
    \A h \in Holders :
        \/ pusher[c][h] = "timedout"
        \/ /\ pusher[c][h] = "sent"
           /\ ~(hstate[h] = "export" /\ received[h][Len(received[h])] = c)

\* wg.Wait(): every push goroutine has called wg.Done()
AllPushesDone(c) == \A h \in Holders : pusher[c][h] \in {"sent", "timedout"}

\* The caller of some ExportData is about to leave wg.Wait(): it does so before
\* anything else happens.
ReturnPending == \E c \in Calls : callState[c] = "active" /\ AllPushesDone(c)

ActiveCalls == {c \in Calls : callState[c] = "active"}
MadeStops == {s \in Stops : \E h \in Holders : stopper[s][h] # "none"}
\* The stop goroutine of Stop call s for holder h is blocked in its select.
StopWaiting(s, h) == stopper[s][h] = "waiting"
WaitingStops == {s \in Stops : \E h \in Holders : StopWaiting(s, h)}

\* The age of Stop call s is kept while one of its stop goroutines still waits.
StopAgeAfter(s, st) ==
    IF \E h \in Holders : st[s][h] = "waiting" THEN stopAge[s] ELSE 0

\* The longest sink.ExportData duration the model tells apart.
BusyCap(h) == Max(cfg.exportDataTimeout, cfg.maxDur[h])

\* ------------------------------------------------------------------ sinkManager.ExportData
\* ExportData starts one push goroutine per holder; each enters its select at once.
ExportDataCall ==
    /\ ~panicked
    /\ ~ReturnPending
    /\ \E c \in Calls :
        /\ callState[c] = "none"
        /\ \A d \in Calls : d < c => callState[d] # "none"
        /\ cfg.period = 0 \/ clock = (c - 1) * cfg.period
        /\ callState' = [callState EXCEPT ![c] = "active"]
        /\ callAge' = [callAge EXCEPT ![c] = 0]
        /\ pusher' = [pusher EXCEPT ![c] = [h \in Holders |-> "waiting"]]
        /\ overlap' = (overlap \/ ActiveCalls # {})
        /\ idleSeen' = [idleSeen EXCEPT ![c] =
                [h \in Holders |-> IF hstate[h] = "select" THEN "atCall" ELSE "no"]]
    /\ UNCHANGED <<aggVars, restVars,
                   cfg, clock, hstate, hbusy, received, inFlight, stopCount, stopper,
                   stopAge, conn, panicked>>

\* The rendezvous on sh.dataBatchChannel: the push goroutine's send and the holder's
\* receive, followed by the holder's call of sh.sink.ExportData(data).  A WavefrontSink
\* starts its ExportData with Connect(), which sets Conn to the new connection or to nil.
Handoff(c, h) ==
    /\ ~panicked
    /\ ~ReturnPending
    /\ pusher[c][h] = "waiting"
    /\ HolderReady(h)
    /\ pusher' = [pusher EXCEPT ![c][h] = "sent"]
    /\ hstate' = [hstate EXCEPT ![h] = "export"]
    /\ hbusy' = [hbusy EXCEPT ![h] = 0]
    /\ received' = [received EXCEPT ![h] = Append(@, c)]
    /\ inFlight' = [inFlight EXCEPT ![h] = @ + 1]
    /\ \E ok \in BOOLEAN :
        conn' = IF cfg.kind[h] = "wavefront"
                THEN [conn EXCEPT ![h] = IF ok THEN "open" ELSE "nil"]
                ELSE conn
    /\ idleSeen' = [idleSeen EXCEPT ![c][h] = "no"]
    /\ UNCHANGED <<aggVars, restVars,
                   cfg, clock, callState, callAge, stopCount, stopper, stopAge, panicked,
                   overlap>>

DataHandoff == \E c \in Calls, h \in Holders : Handoff(c, h)

\* case <-time.After(this.exportDataTimeout)
PushTimeout ==
    /\ ~panicked
    /\ ~ReturnPending
    /\ \E c \in Calls, h \in Holders :
        /\ pusher[c][h] = "waiting"
        /\ PushTimerFired(c)
        /\ pusher' = [pusher EXCEPT ![c][h] = "timedout"]
    /\ UNCHANGED <<aggVars, restVars,
                   cfg, clock, callState, callAge, hstate, hbusy, received, inFlight,
                   stopCount, stopper, stopAge, conn, panicked, overlap, idleSeen>>

\* sh.sink.ExportData(data) returns; the holder goroutine loops back to its select.
SinkDone ==
    /\ ~panicked
    /\ ~ReturnPending
    /\ \E h \in Holders :
        /\ hstate[h] = "export"
        /\ hbusy[h] >= cfg.minDur[h]
        /\ hstate' = [hstate EXCEPT ![h] = "select"]
        /\ hbusy' = [hbusy EXCEPT ![h] = 0]
        /\ inFlight' = [inFlight EXCEPT ![h] = @ - 1]
        /\ idleSeen' = [c \in Calls |->
                IF pusher[c][h] = "waiting" /\ ~PushTimerFired(c) /\ idleSeen[c][h] = "no"
                THEN [idleSeen[c] EXCEPT ![h] = "later"] ELSE idleSeen[c]]
    /\ UNCHANGED <<aggVars, restVars,
                   cfg, clock, callState, callAge, pusher, received, stopCount, stopper,
                   stopAge, conn, panicked, overlap>>

\* wg.Wait() returns and with it ExportData.
ExportDataReturn ==
    /\ ~panicked
    /\ \E c \in Calls :
        /\ callState[c] = "active"
        /\ AllPushesDone(c)
        /\ callState' = [callState EXCEPT ![c] = "returned"]
        /\ callAge' = [callAge EXCEPT ![c] = 0]
        /\ pusher' = [pusher EXCEPT ![c] =
                [h \in Holders |-> IF pusher[c][h] = "waiting" THEN "waiting" ELSE "none"]]
        /\ idleSeen' = [idleSeen EXCEPT ![c] = [h \in Holders |-> "no"]]
    /\ UNCHANGED <<aggVars, restVars,
                   cfg, clock, hstate, hbusy, received, inFlight, stopCount, stopper,
                   stopAge, conn, panicked, overlap>>

\* ------------------------------------------------------------------ sinkManager.Stop
\* Stop() starts one stop goroutine per holder and returns.
StopCall ==
    /\ ~panicked
    /\ ~ReturnPending
    /\ \E s \in Stops :
        /\ s \notin MadeStops
        /\ \A r \in Stops : r < s => r \in MadeStops
        /\ stopper' = [stopper EXCEPT ![s] = [h \in Holders |-> "waiting"]]
        /\ stopAge' = [stopAge EXCEPT ![s] = 0]
    /\ UNCHANGED <<aggVars, restVars,
                   cfg, clock, callState, callAge, pusher, hstate, hbusy, received,
                   inFlight, stopCount, conn, panicked, overlap, idleSeen>>

\* WavefrontSink.Stop: this.Conn.Close().  A nil Conn makes the call panic.
WavefrontStopPanics(h) == cfg.kind[h] = "wavefront" /\ conn[h] = "nil"

\* The rendezvous on sh.stopChannel, followed by the holder's call of sh.sink.Stop()
\* and its return from the goroutine.
StopHandoff ==
    /\ ~panicked
    /\ ~ReturnPending
    /\ \E s \in Stops, h \in Holders :
        /\ StopWaiting(s, h)
        /\ HolderReady(h)
        /\ stopper' = [stopper EXCEPT ![s][h] = "sent"]
        /\ stopCount' = [stopCount EXCEPT ![h] = @ + 1]
        /\ hstate' = [hstate EXCEPT ![h] = "exited"]
        /\ panicked' = WavefrontStopPanics(h)
        /\ conn' = IF cfg.kind[h] = "wavefront" /\ conn[h] # "nil"
                   THEN [conn EXCEPT ![h] = "closed"] ELSE conn
        /\ stopAge' = [stopAge EXCEPT ![s] = StopAgeAfter(s, stopper')]
    /\ UNCHANGED <<aggVars, restVars,
                   cfg, clock, callState, callAge, pusher, hbusy, received, inFlight,
                   overlap, idleSeen>>

\* case <-time.After(this.stopTimeout)
StopTimeout ==
    /\ ~panicked
    /\ ~ReturnPending
    /\ \E s \in Stops, h \in Holders :
        /\ StopWaiting(s, h)
        /\ StopTimerFired(s)
        /\ stopper' = [stopper EXCEPT ![s][h] = "timedout"]
        /\ stopAge' = [stopAge EXCEPT ![s] = StopAgeAfter(s, stopper')]
    /\ UNCHANGED <<aggVars, restVars,
                   cfg, clock, callState, callAge, pusher, hstate, hbusy, received,
                   inFlight, stopCount, conn, panicked, overlap, idleSeen>>

\* ------------------------------------------------------------------ time
\* Something can happen without time passing.
Urgent ==
    \/ \E c \in Calls, h \in Holders : pusher[c][h] = "waiting" /\ HolderReady(h)
    \/ \E s \in Stops, h \in Holders : StopWaiting(s, h) /\ HolderReady(h)
    \/ \E c \in Calls, h \in Holders : pusher[c][h] = "waiting" /\ PushTimerFired(c)
    \/ \E s \in Stops, h \in Holders : StopWaiting(s, h) /\ StopTimerFired(s)
    \/ ReturnPending
    \/ \E h \in Holders :
        hstate[h] = "export" /\ cfg.maxDur[h] >= 0 /\ hbusy[h] >= cfg.maxDur[h]
    \/ /\ cfg.period > 0
       /\ \E c \in Calls : callState[c] = "none" /\ clock = (c - 1) * cfg.period

Tick ==
    /\ ~panicked
    /\ ~Urgent
    /\ cfg.period > 0 => clock < cfg.horizon
    /\ clock' = IF cfg.period > 0 THEN clock + 1 ELSE clock
    /\ callAge' = [c \in Calls |-> IF callState[c] = "active"
                                   THEN callAge[c] + 1 ELSE callAge[c]]
    /\ stopAge' = [s \in Stops |-> IF s \in WaitingStops
                                   THEN stopAge[s] + 1 ELSE stopAge[s]]
    /\ hbusy' = [h \in Holders |-> IF hstate[h] = "export"
                                   THEN Min(hbusy[h] + 1, BusyCap(h)) ELSE hbusy[h]]
    /\ UNCHANGED <<aggVars, restVars,
                   cfg, callState, pusher, hstate, received, inFlight, stopCount,
                   stopper, conn, panicked, overlap, idleSeen>>

\* ------------------------------------------------------------------ NodeAggregator.Process
\* The entities of an input batch.  A metric set carries its metric_set_type label, its
\* nodename label (NoLabel when the label is absent) and the value of the one metric
\* named in MetricsToAggregate.
Pods == {"p1", "p2"}
Nodes == {"n1", "n2"}
NoLabel == "none"
MetricSetTypePod == "pod"
MetricSetTypeNode == "node"

PodKey(p) == <<"pod", p>>
NodeKey(nodeName) == <<"node", nodeName>>
AggKeys == {PodKey(p) : p \in Pods} \cup {NodeKey(n) : n \in Nodes}

PodSets == [type : {MetricSetTypePod}, nodename : Nodes \cup {NoLabel}, value : 0..MaxValue]
NodeSets == [type : {MetricSetTypeNode}, nodename : {NoLabel}, value : 0..MaxValue]

\* The input batches: any of the keys, each bound to a metric set of its kind.
Batches ==
    {b \in UNION {[K -> PodSets \cup NodeSets] : K \in SUBSET AggKeys} :
        \A k \in DOMAIN b : b[k].type = k[1]}

\* aggregate(src, dst, metricsToAggregate): adds the source's value to the target's.
aggregate(src, dst) == [dst EXCEPT !.value = @ + src.value]

\* batch.Timestamp
BatchStamps == {0, 1}

\* A variant that the code does not have: a key that is bound already keeps its metric
\* set.
BindIfAbsent(result, key, set) ==
    IF \E a \in result : (IF a = <<"new", "cluster">> THEN <<"cluster", "cluster">> ELSE a) = key
    THEN result ELSE result \cup {set}

\* Process is called with batch b: result := core.DataBatch{Timestamp: batch.Timestamp,
\* MetricSets: make(map[string]*core.MetricSet)}.
ProcessStart(b) ==
    /\ aggInput = b
    /\ aggSets = b
    /\ aggTodo = DOMAIN b
    /\ aggResult = {}
    /\ aggWarned = {}
    /\ aggRet = "running"
    /\ \E t \in BatchStamps : aggStamp = [batch |-> t, result |-> t]

NodeAggregatorName == "node_aggregator"
ClusterAggregatorName == "cluster_aggregator"

InitNodeAgg ==
    /\ MgrInit(GeneralCfg)
    /\ RestIdle
    /\ aggKind = NodeAggregatorName
    /\ \E b \in Batches : ProcessStart(b)

\* One iteration of "for key, metricSet := range batch.MetricSets"; the map is ranged
\* over in any order.
ProcessVisit ==
    /\ aggKind = NodeAggregatorName
    /\ aggRet = "running"
    /\ \E key \in aggTodo :
        LET metricSet == aggSets[key]
            nodeKey == NodeKey(metricSet.nodename)
        IN  /\ aggTodo' = aggTodo \ {key}
            /\ IF metricSet.type # MetricSetTypePod
               THEN \* not a pod: copied to the result only
                    /\ aggResult' = aggResult \cup {key}
                    /\ UNCHANGED <<aggSets, aggWarned, aggRet>>
               ELSE IF metricSet.nodename = NoLabel
               THEN \* return nil, fmt.Errorf("No node info in pod ...")
                    /\ aggResult' = {}
                    /\ aggRet' = "error"
                    /\ UNCHANGED <<aggSets, aggWarned>>
               ELSE IF nodeKey \notin aggResult /\ nodeKey \notin DOMAIN aggSets
               THEN \* glog.Warningf("Failed to find node: ..."); continue
                    /\ aggResult' = aggResult \cup {key}
                    /\ aggWarned' = aggWarned \cup {key}
                    /\ UNCHANGED <<aggSets, aggRet>>
               ELSE /\ aggResult' = aggResult \cup {key}
                    /\ aggSets' = [aggSets EXCEPT ![nodeKey] = aggregate(metricSet, @)]
                    /\ UNCHANGED <<aggWarned, aggRet>>
    /\ UNCHANGED <<mgrVars, restVars, aggInput, aggKind, aggStamp>>

\* return &result, nil
ProcessReturn ==
    /\ aggRet = "running"
    /\ aggTodo = {}
    /\ aggRet' = "ok"
    /\ UNCHANGED <<mgrVars, restVars, aggInput, aggSets, aggTodo, aggResult, aggWarned, aggKind, aggStamp>>

NextNodeAgg ==
    \/ ProcessVisit
    \/ ProcessReturn

\* ------------------------------------------------------------------ ClusterAggregator.Process
MetricSetTypeNamespace == "ns"
MetricSetTypeSystemContainer == "sys_container"
MetricSetTypeCluster == "cluster"
ClusterKey == <<MetricSetTypeCluster, "cluster">>

ClusterAggKeys ==
    {<<MetricSetTypeNamespace, "ns1">>, <<MetricSetTypeNamespace, "ns2">>,
     <<MetricSetTypeSystemContainer, "sc1">>, ClusterKey, PodKey("p1")}

\* The input batches of the cluster aggregator: any of the keys, each bound to a metric
\* set of its kind; the cluster set may already be in the input.
ClusterBatches ==
    {b \in UNION {[K -> [type : {k[1] : k \in ClusterAggKeys}, nodename : {NoLabel},
                         value : 0..MaxValue]] : K \in SUBSET ClusterAggKeys} :
        \A k \in DOMAIN b : b[k].type = k[1]}

\* A variant of clusterMetricSet() that the code does not have: the new set is
\* labelled as a namespace.
namespaceMetricSet == [type |-> MetricSetTypeNamespace, nodename |-> NoLabel, value |-> 0]

\* clusterMetricSet(): a new metric set with the metric_set_type label only.  It is a
\* set of its own, apart from any cluster set of the input.
clusterMetricSet == [type |-> MetricSetTypeCluster, nodename |-> NoLabel, value |-> 0]
NewClusterSet == <<"new", "cluster">>

\* The key a metric set is bound to in result.MetricSets.
KeyOf(set) == IF set = NewClusterSet THEN ClusterKey ELSE set

\* result.MetricSets[key] = set
Bind(result, key, set) == {a \in result : KeyOf(a) # key} \cup {set}

\* The body of "for key, metricSet := range batch.MetricSets", from the metric sets and
\* the result so far to those after it.
ClusterVisit(st, key) ==
    LET metricSet == st.sets[key]
        copied == Bind(st.result, key, key)
    IN  IF metricSet.type \notin {MetricSetTypeNamespace, MetricSetTypeSystemContainer}
        THEN [sets |-> st.sets, result |-> copied]
        ELSE LET found == \E a \in copied : KeyOf(a) = ClusterKey
                 sets1 == IF found THEN st.sets
                          ELSE (NewClusterSet :> clusterMetricSet) @@ st.sets
                 result1 == IF found THEN copied ELSE Bind(copied, ClusterKey, NewClusterSet)
                 cluster == CHOOSE a \in result1 : KeyOf(a) = ClusterKey
             IN  [sets |-> [sets1 EXCEPT ![cluster] = aggregate(metricSet, @)],
                  result |-> result1]

InitClusterAgg ==
    /\ MgrInit(GeneralCfg)
    /\ RestIdle
    /\ aggKind = ClusterAggregatorName
    /\ \E b \in ClusterBatches : ProcessStart(b)

\* One iteration of the range loop; the map is ranged over in any order.
ClusterProcessVisit ==
    /\ aggKind = ClusterAggregatorName
    /\ aggRet = "running"
    /\ \E key \in aggTodo :
        LET st == ClusterVisit([sets |-> aggSets, result |-> aggResult], key)
        IN  /\ aggTodo' = aggTodo \ {key}
            /\ aggSets' = st.sets
            /\ aggResult' = st.result
    /\ UNCHANGED <<mgrVars, restVars, aggInput, aggWarned, aggRet, aggKind, aggStamp>>

InitAgg == InitNodeAgg \/ InitClusterAgg

NextAgg ==
    \/ ProcessVisit
    \/ ClusterProcessVisit
    \/ ProcessReturn

\* ------------------------------------------------------------------ main: the processor chain
MaxSources == 2
SourceKeys == {"kubernetes", "influxdb"}
Constructors ==
    {"PodBasedEnricher", "NamespaceBasedEnricher", "NodeAutoscalingEnricher", "Manager"}

\* A variant of the aggregators' order that the code does not have: the node
\* aggregator after the cluster aggregator.
aggregatorsNodeLast ==
    <<"PodAggregator", "NamespaceAggregator", "ClusterAggregator", "NodeAggregator">>

\* dataProcessors = append(dataProcessors, &processors.PodAggregator{}, ...)
aggregators ==
    <<"PodAggregator", "NamespaceAggregator", "NodeAggregator", "ClusterAggregator">>

\* the least metric_resolution validateFlags lets pass, in seconds
MinMetricResolution == 5
Resolutions == (MinMetricResolution - 1)..(MinMetricResolution + 1)

\* A variant that the code does not have: a resolution of 5 seconds is refused too.
validateFlagsAboveOnly(flags) ==
    \/ flags.metricResolution <= MinMetricResolution
    \/ (flags.tlsCert /\ ~flags.tlsKey) \/ (~flags.tlsCert /\ flags.tlsKey)
    \/ (flags.tlsClientCA /\ ~flags.tlsCert)

\* validateFlags() returns an error
validateFlags(flags) ==
    \/ flags.metricResolution < MinMetricResolution
    \/ (flags.tlsCert /\ ~flags.tlsKey) \/ (~flags.tlsCert /\ flags.tlsKey)
    \/ (flags.tlsClientCA /\ ~flags.tlsCert)

\* getKubernetesAddress(argSources) returns no error
getKubernetesAddress ==
    \E i \in 1..Len(argSources) : argSources[i] = "kubernetes"

\* main is started with any --source flags; any of the constructors may fail.
InitMain ==
    /\ MgrInit(GeneralCfg)
    /\ AggIdle
    /\ StoreIdle
    /\ ExtIdle
    /\ argSources \in UNION {[1..n -> SourceKeys] : n \in 0..MaxSources}
    /\ argFlags \in [metricResolution : Resolutions, tlsCert : BOOLEAN, tlsKey : BOOLEAN,
                     tlsClientCA : BOOLEAN]
    /\ failing \in SUBSET Constructors
    /\ mainPc = "flags"
    /\ dataProcessors = <<>>
    /\ processed = <<>>

\* if err := validateFlags(); err != nil { glog.Fatal(err) }
ValidateFlags ==
    /\ mainPc = "flags"
    /\ mainPc' = IF validateFlags(argFlags) THEN "fatal" ELSE "sources"
    /\ UNCHANGED <<mgrVars, aggVars, ssVars, extVars, argSources, argFlags, failing, dataProcessors, processed>>

\* if len(argSources) != 1 { glog.Fatal("wrong number of sources specified") }
CheckSources ==
    /\ mainPc = "sources"
    /\ mainPc' = IF Len(argSources) # 1 THEN "fatal" ELSE "enrichers"
    /\ UNCHANGED <<mgrVars, aggVars, ssVars, extVars, argSources, argFlags, failing, dataProcessors, processed>>

\* "pod enricher goes first": with a kubernetes source, the pod based and the namespace
\* based enricher are appended; glog.Fatalf when either cannot be created.
AppendEnrichers ==
    /\ mainPc = "enrichers"
    /\ IF ~getKubernetesAddress
       THEN /\ mainPc' = "aggregators"
            /\ UNCHANGED dataProcessors
       ELSE IF "PodBasedEnricher" \in failing
       THEN /\ mainPc' = "fatal"
            /\ UNCHANGED dataProcessors
       ELSE IF "NamespaceBasedEnricher" \in failing
       THEN /\ mainPc' = "fatal"
            /\ dataProcessors' = Append(dataProcessors, "PodBasedEnricher")
       ELSE /\ mainPc' = "aggregators"
            /\ dataProcessors' =
                dataProcessors \o <<"PodBasedEnricher", "NamespaceBasedEnricher">>
    /\ UNCHANGED <<mgrVars, aggVars, ssVars, extVars, argSources, argFlags, failing, processed>>

\* "then aggregators"
AppendAggregators ==
    /\ mainPc = "aggregators"
    /\ dataProcessors' = dataProcessors \o aggregators
    /\ mainPc' = "autoscaling"
    /\ UNCHANGED <<mgrVars, aggVars, ssVars, extVars, argSources, argFlags, failing, processed>>

\* The third block: with a kubernetes source, the node autoscaling enricher is appended
\* after the aggregators.
AppendAutoscalingEnricher ==
    /\ mainPc = "autoscaling"
    /\ IF ~getKubernetesAddress
       THEN /\ mainPc' = "manager"
            /\ UNCHANGED dataProcessors
       ELSE IF "NodeAutoscalingEnricher" \in failing
       THEN /\ mainPc' = "fatal"
            /\ UNCHANGED dataProcessors
       ELSE /\ mainPc' = "manager"
            /\ dataProcessors' = Append(dataProcessors, "NodeAutoscalingEnricher")
    /\ UNCHANGED <<mgrVars, aggVars, ssVars, extVars, argSources, argFlags, failing, processed>>

\* manager.NewManager(sourceManager, dataProcessors, ...); manager.Start()
StartManager ==
    /\ mainPc = "manager"
    /\ mainPc' = IF "Manager" \in failing THEN "fatal" ELSE "started"
    /\ UNCHANGED <<mgrVars, aggVars, ssVars, extVars, argSources, argFlags, failing, dataProcessors, processed>>

\* The manager passes the batch to the next processor of the chain, in declared order.
RunProcessor ==
    /\ mainPc = "started"
    /\ Len(processed) < Len(dataProcessors)
    /\ processed' = Append(processed, dataProcessors[Len(processed) + 1])
    /\ UNCHANGED <<mgrVars, aggVars, ssVars, extVars, argSources, argFlags, failing, mainPc, dataProcessors>>

\* The batch has passed the whole chain; the next scrape brings a new one.
NextBatch ==
    /\ mainPc = "started"
    /\ processed = dataProcessors
    /\ processed # <<>>
    /\ processed' = <<>>
    /\ UNCHANGED <<mgrVars, aggVars, ssVars, extVars, argSources, argFlags, failing, mainPc, dataProcessors>>

NextMain ==
    \/ ValidateFlags
    \/ CheckSources
    \/ AppendEnrichers
    \/ AppendAggregators
    \/ AppendAutoscalingEnricher
    \/ StartManager
    \/ RunProcessor
    \/ NextBatch

\* ------------------------------------------------------------------ StatStore
Epsilons == {1, 2}
Capacities == {1, 2}
MaxSample == 2
MaxTime == 6
MaxMerge == 3

\* Timestamps are counted in half resolutions, so that two timestamps may fall in one
\* resolution.
TicksPerResolution == 2
Samples == 0..MaxSample

\* tp.Timestamp.Truncate(resolution)
Truncate(t) == (t \div TicksPerResolution) * TicksPerResolution

\* Variants that the store does not have.
neverOutOfOrder(lastPut, ts) == FALSE
mergeMaxBucket(lastPut, v, epsilon) ==
    LET held == ((lastPut.sum + lastPut.count * epsilon - 1) \div (lastPut.count * epsilon))
                    * epsilon
        new == ((v + epsilon - 1) \div epsilon) * epsilon
    IN  [lastPut EXCEPT !.sum = Max(held, new), !.count = 1, !.max = Max(@, v)]
bucketBelowMean(lastPut, epsilon) ==
    (lastPut.sum \div (lastPut.count * epsilon)) * epsilon
fillOpenOnly(lastPut, ts, epsilon) ==
    <<[Timestamp |-> lastPut.stamp,
       Value |-> ((lastPut.sum + lastPut.count * epsilon - 1)
                    \div (lastPut.count * epsilon)) * epsilon,
       Max |-> lastPut.max]>>
rewindNewest(buffer, capacity) ==
    IF Len(buffer) <= capacity THEN buffer
    ELSE SubSeq(buffer, Len(buffer) - capacity + 1, Len(buffer))
lastWithOpen(buffer, lastPut) ==
    IF lastPut.stamp = NoTime THEN [err |-> TRUE, point |-> NoPoint]
    ELSE [err |-> FALSE,
          point |-> [Timestamp |-> lastPut.stamp, Value |-> lastPut.max]]

\* The timestamp falls in a resolution older than the open one.
outOfOrder(lastPut, ts) == ts < lastPut.stamp

\* The value joins those of the open resolution: their mean and their greatest are
\* kept.
merge(lastPut, v, epsilon) ==
    [lastPut EXCEPT !.sum = @ + v, !.count = @ + 1, !.max = Max(@, v)]

\* The bucket of the open resolution: the mean of its values, rounded up to a multiple
\* of epsilon.
bucketOfMean(lastPut, epsilon) ==
    ((lastPut.sum + lastPut.count * epsilon - 1) \div (lastPut.count * epsilon)) * epsilon

\* The samples committed when a Put arrives at resolution ts, newest first: the open
\* resolution and every resolution skipped between it and ts, all with the open
\* resolution's bucket.
fill(lastPut, ts, epsilon) ==
    LET n == (ts - lastPut.stamp) \div TicksPerResolution
    IN  [i \in 1..n |->
            [Timestamp |-> ts - i * TicksPerResolution,
             Value |-> bucketOfMean(lastPut, epsilon),
             Max |-> lastPut.max]]

\* Only the newest capacity samples are kept.
rewind(buffer, capacity) ==
    IF Len(buffer) <= capacity THEN buffer ELSE SubSeq(buffer, 1, capacity)

\* A Put has been made.
Opened == ssLastPut.stamp # NoTime

\* NewStatStore(epsilon, resolution, capacity, percentiles)
InitStore ==
    /\ MgrInit(GeneralCfg)
    /\ AggIdle
    /\ MainIdle
    /\ ExtIdle
    /\ ssCfg \in [epsilon : Epsilons, capacity : Capacities]
    /\ ssBuffer = <<>>
    /\ ssLastPut = NoLastPut
    /\ ssArg = NoTime
    /\ ssRet = "none"
    /\ ssOpenValues = [v \in Samples |-> 0]
    /\ ssFirst = NoTime
    /\ ssCache = NoCache
    /\ ssAvgRet = NotCalled

\* Put(tp)
Put ==
    \E t \in 0..MaxTime, v \in Samples :
        LET ts == Truncate(t)
            first == [stamp |-> ts, sum |-> v, count |-> 1, max |-> v]
            only == [x \in Samples |-> IF x = v THEN 1 ELSE 0]
        IN  /\ ssArg' = ts
            /\ IF ssLastPut.stamp = NoTime
               THEN \* the first Put opens its resolution
                    /\ ssLastPut' = first
                    /\ ssOpenValues' = only
                    /\ ssFirst' = ts
                    /\ ssRet' = "ok"
                    /\ UNCHANGED <<ssBuffer, ssCache>>
               ELSE IF outOfOrder(ssLastPut, ts)
               THEN /\ ssRet' = "error"
                    /\ UNCHANGED <<ssBuffer, ssLastPut, ssOpenValues, ssFirst, ssCache>>
               ELSE IF ts = ssLastPut.stamp
               THEN /\ ssLastPut.count < MaxMerge
                    /\ ssLastPut' = merge(ssLastPut, v, ssCfg.epsilon)
                    /\ ssOpenValues' = [ssOpenValues EXCEPT ![v] = @ + 1]
                    /\ ssRet' = "ok"
                    /\ UNCHANGED <<ssBuffer, ssFirst, ssCache>>
               ELSE /\ ssBuffer' = rewind(fill(ssLastPut, ts, ssCfg.epsilon) \o ssBuffer,
                                          ssCfg.capacity)
                    /\ ssLastPut' = first
                    /\ ssOpenValues' = only
                    /\ ssRet' = "ok"
                    /\ ssCache' = NoCache  \* a commit invalidates the memoised results
                    /\ UNCHANGED ssFirst
    /\ ssAvgRet' = NotCalled
    /\ UNCHANGED <<mgrVars, aggVars, mainVars, extVars, ssCfg>>

NextStore == Put

\* Last()
Last(buffer, lastPut) ==
    IF buffer = <<>> THEN [err |-> TRUE, point |-> NoPoint]
    ELSE [err |-> FALSE,
          point |-> [Timestamp |-> buffer[1].Timestamp, Value |-> buffer[1].Value]]

\* A variant that the store does not have: the greatest committed bucket.
maxBucketValue(buffer) ==
    IF buffer = <<>> THEN [err |-> TRUE, value |-> 0]
    ELSE [err |-> FALSE,
          value |-> CHOOSE m \in {buffer[i].Value : i \in DOMAIN buffer} :
                        \A i \in DOMAIN buffer : buffer[i].Value <= m]

\* Max(): the greatest value put in a committed resolution
MaxOf(buffer) ==
    IF buffer = <<>> THEN [err |-> TRUE, value |-> 0]
    ELSE [err |-> FALSE,
          value |-> CHOOSE m \in {buffer[i].Max : i \in DOMAIN buffer} :
                        \A i \in DOMAIN buffer : buffer[i].Max <= m]

RECURSIVE SumOf(_)
SumOf(buffer) == IF buffer = <<>> THEN 0 ELSE Head(buffer).Value + SumOf(Tail(buffer))

\* A variant that the store does not have: the mean rounded up to a multiple of
\* epsilon.
averageBucket(buffer, epsilon) ==
    IF buffer = <<>> THEN [err |-> TRUE, value |-> 0]
    ELSE [err |-> FALSE,
          value |-> ((SumOf(buffer) + Len(buffer) * epsilon - 1)
                        \div (Len(buffer) * epsilon)) * epsilon]

\* Average(): the integer mean of the committed buckets
Average(buffer, epsilon) ==
    IF buffer = <<>> THEN [err |-> TRUE, value |-> 0]
    ELSE [err |-> FALSE, value |-> SumOf(buffer) \div Len(buffer)]

\* A call of Average(): the memoised value when it is valid, otherwise the mean, which
\* is then memoised.
CallAverage ==
    /\ Opened
    /\ LET computed == Average(ssBuffer, ssCfg.epsilon)
       IN  IF computed.err
           THEN /\ ssAvgRet' = [called |-> TRUE, err |-> TRUE, value |-> 0]
                /\ UNCHANGED ssCache
           ELSE IF ssCache.valid
           THEN /\ ssAvgRet' = [called |-> TRUE, err |-> FALSE, value |-> ssCache.average]
                /\ UNCHANGED ssCache
           ELSE /\ ssAvgRet' = [called |-> TRUE, err |-> FALSE, value |-> computed.value]
                /\ ssCache' = [valid |-> TRUE, average |-> computed.value]
    /\ UNCHANGED <<mgrVars, aggVars, mainVars, extVars, ssCfg, ssBuffer, ssLastPut, ssArg, ssRet,
                   ssOpenValues, ssFirst>>

NextStoreAverage ==
    \/ Put
    \/ CallAverage

\* Percentile(p), p in percent: the nearest rank among the committed buckets
Percentiles == {50, 95}
Percentile(buffer, p) ==
    IF buffer = <<>> \/ p \notin Percentiles THEN [err |-> TRUE, value |-> 0]
    ELSE LET rank == (p * Len(buffer) + 99) \div 100
             vals == {buffer[i].Value : i \in DOMAIN buffer}
             upTo(x) == Cardinality({i \in DOMAIN buffer : buffer[i].Value <= x})
         IN  [err |-> FALSE,
              value |-> CHOOSE x \in vals :
                            /\ upTo(x) >= rank
                            /\ \A y \in vals : (upTo(y) >= rank => x <= y)]

\* Get(start, end): newest first; a zero time is no limit.  Consecutive resolutions of
\* equal value are held as one bucket.  A bucket whose newest sample is not after start
\* ends the result; of a bucket that reaches beyond start, the samples not before start
\* and not after end are returned.
Get(buffer, start, end) ==
    LET bucketNewest(i) ==
            buffer[CHOOSE j \in 1..i :
                     /\ \A k \in j..i : buffer[k].Value = buffer[i].Value
                     /\ (j = 1 \/ buffer[j - 1].Value # buffer[i].Value)].Timestamp
        in(i) ==
            /\ (end = NoTime \/ buffer[i].Timestamp <= end)
            /\ buffer[i].Timestamp >= start
            /\ bucketNewest(i) > start
        result[i \in 0..Len(buffer)] ==
            IF i = 0 THEN <<>>
            ELSE IF in(i)
            THEN Append(result[i - 1],
                        [Timestamp |-> buffer[i].Timestamp, Value |-> buffer[i].Value])
            ELSE result[i - 1]
    IN  IF end # NoTime /\ start > end THEN <<>> ELSE result[Len(buffer)]

\* ------------------------------------------------------------------ housekeep, doWork
MaxNow == 6
NumSources == 2
\* poll_duration, in units of hkNow
PollDuration == 2

HkSources == 1..NumSources
NoWindow == [start |-> -1, end |-> -1]
AllCalls == HkSources \X {"GetInfo", "Store"}
notHk == <<mgrVars, aggVars, mainVars, ssVars, ksVars, apiVars, mtVars, expVars,
          sinkVars>>

\* A variant that the code does not have: a tick is taken whenever one waits, wherever
\* the loop is.
tickTakenAnywhere == hkTickPending /\ hkPc # "returned"

\* case <-ticker.C: the loop is at its select and a tick waits in the channel.
tickTaken == hkTickPending /\ hkPc = "select"

\* go housekeep(sources, sink): ticker := time.NewTicker(...); lastGet := time.Now()
InitHousekeep ==
    /\ MgrInit(GeneralCfg) /\ AggIdle /\ MainIdle /\ StoreIdle /\ SinkIdle
    /\ KsIdle /\ ApiIdle /\ MtIdle /\ ExpIdle
    /\ hkProgram = "housekeep"
    /\ hkNow = 0
    /\ hkPc = "select"
    /\ hkSrc = 0
    /\ hkTickPending = FALSE
    /\ hkCycle = 0
    /\ hkLastGet = 0
    /\ hkWindow = [i \in HkSources |-> NoWindow]
    /\ hkCalls = {}
    /\ hkFailed = FALSE
    /\ hkCycleStart = 0

\* doWork(stop) of the collector: ticker := time.NewTicker(*argPollDuration)
InitDoWork ==
    /\ MgrInit(GeneralCfg) /\ AggIdle /\ MainIdle /\ StoreIdle /\ SinkIdle
    /\ KsIdle /\ ApiIdle /\ MtIdle /\ ExpIdle
    /\ hkProgram = "doWork"
    /\ hkNow = 0
    /\ hkPc = "select"
    /\ hkSrc = 0
    /\ hkTickPending = FALSE
    /\ hkCycle = 0
    /\ hkLastGet = 0
    /\ hkWindow = <<>>
    /\ hkCalls = {}
    /\ hkFailed = FALSE
    /\ hkCycleStart = 0

InitPoll == InitHousekeep \/ InitDoWork

\* Time passes; the ticker sends a tick every poll period and drops it when the
\* channel still holds the previous one.
Elapse ==
    /\ hkProgram # "none"
    /\ hkPc # "returned"
    /\ hkNow < MaxNow
    /\ hkNow' = hkNow + 1
    /\ hkTickPending' = (hkTickPending \/ (hkNow + 1) % PollDuration = 0)
    /\ UNCHANGED <<notHk, hkProgram, hkPc, hkSrc, hkCycle, hkLastGet, hkWindow, hkCalls,
                   hkFailed, hkCycleStart>>

\* case <-ticker.C
ReceiveTick ==
    /\ hkProgram # "none"
    /\ tickTaken
    /\ hkTickPending' = FALSE
    /\ hkCycle' = hkCycle + 1
    /\ hkCycleStart' = hkNow
    /\ hkCalls' = {}
    /\ hkFailed' = FALSE
    /\ hkPc' = IF hkProgram = "doWork" THEN "listMinions" ELSE "getinfo"
    /\ hkSrc' = IF hkProgram = "doWork" THEN 0 ELSE 1
    /\ UNCHANGED <<notHk, hkProgram, hkNow, hkLastGet, hkWindow>>

\* source.GetInfo(lastGet, time.Now(), *argStatsResolution) is called
CallGetInfo ==
    /\ hkProgram = "housekeep"
    /\ hkPc = "getinfo"
    /\ hkWindow' = [hkWindow EXCEPT ![hkSrc] = [start |-> hkLastGet, end |-> hkNow]]
    /\ hkPc' = "ingetinfo"
    /\ UNCHANGED <<notHk, hkProgram, hkNow, hkSrc, hkTickPending, hkCycle, hkLastGet,
                   hkCalls, hkFailed, hkCycleStart>>

\* GetInfo returns, with or without an error; an error is logged.
ReturnGetInfo ==
    /\ hkProgram = "housekeep"
    /\ hkPc = "ingetinfo"
    /\ \E err \in BOOLEAN : hkFailed' = (hkFailed \/ err)
    /\ hkCalls' = hkCalls \cup {<<hkSrc, "GetInfo">>}
    /\ hkPc' = "store"
    /\ UNCHANGED <<notHk, hkProgram, hkNow, hkSrc, hkTickPending, hkCycle, hkLastGet,
                   hkWindow, hkCycleStart>>

\* sink.Store(data) is called
CallStore ==
    /\ hkProgram = "housekeep"
    /\ hkPc = "store"
    /\ hkPc' = "instore"
    /\ UNCHANGED <<notHk, hkProgram, hkNow, hkSrc, hkTickPending, hkCycle, hkLastGet,
                   hkWindow, hkCalls, hkFailed, hkCycleStart>>

\* Store returns, with or without an error; an error is logged.  The range loop goes
\* on with the next source.
ReturnStore ==
    /\ hkProgram = "housekeep"
    /\ hkPc = "instore"
    /\ \E err \in BOOLEAN : hkFailed' = (hkFailed \/ err)
    /\ hkCalls' = hkCalls \cup {<<hkSrc, "Store">>}
    /\ IF hkSrc < NumSources
       THEN hkSrc' = hkSrc + 1 /\ hkPc' = "getinfo"
       ELSE hkSrc' = 0 /\ hkPc' = "setlast"
    /\ UNCHANGED <<notHk, hkProgram, hkNow, hkTickPending, hkCycle, hkLastGet, hkWindow,
                   hkCycleStart>>

\* lastGet = time.Now()
SetLastGet ==
    /\ hkProgram = "housekeep"
    /\ hkPc = "setlast"
    /\ hkLastGet' = hkNow
    /\ hkPc' = "select"
    /\ UNCHANGED <<notHk, hkProgram, hkNow, hkSrc, hkTickPending, hkCycle, hkWindow,
                   hkCalls, hkFailed, hkCycleStart>>

\* doWork: ListMinions, FetchData and ListPods in turn; "if err != nil { return err }"
\* after each; then containersHistory = append(containersHistory, data).
DoWorkStep ==
    /\ hkProgram = "doWork"
    /\ hkPc \in {"listMinions", "fetchData", "listPods", "append"}
    /\ \E err \in BOOLEAN :
        /\ (hkPc = "append") => ~err
        /\ hkFailed' = (hkFailed \/ err)
        /\ hkPc' = IF err THEN "returned"
                   ELSE CASE hkPc = "listMinions" -> "fetchData"
                          [] hkPc = "fetchData" -> "listPods"
                          [] hkPc = "listPods" -> "append"
                          [] hkPc = "append" -> "select"
    /\ hkCalls' = hkCalls \cup {<<0, hkPc>>}
    /\ UNCHANGED <<notHk, hkProgram, hkNow, hkSrc, hkTickPending, hkCycle, hkLastGet,
                   hkWindow, hkCycleStart>>

NextHousekeep ==
    \/ Elapse
    \/ ReceiveTick
    \/ CallGetInfo
    \/ ReturnGetInfo
    \/ CallStore
    \/ ReturnStore
    \/ SetLastGet

NextPoll ==
    \/ NextHousekeep
    \/ DoWorkStep

\* ------------------------------------------------------------------ Source.GetInfo
MaxGetInfo == 2

KsPods == <<"p1", "p2">>
KsNodes == {"n1", "n2"}
KsItems == {KsPods[i] : i \in 1..Len(KsPods)} \cup KsNodes
\* pod.Status.Phase
Phases == {"Running", "Pending"}
\* http.NewRequest fails; PostRequestAndGetValue fails; stats were returned
Outcomes == {"malformed", "failed", "ok"}
NoReturn == [called |-> FALSE, err |-> FALSE, data |-> {}]
notKs == <<mgrVars, aggVars, mainVars, ssVars, hkVars, apiVars, mtVars, expVars,
          sinkVars>>

\* recordPodError(pod): "Ignore errors for Pods that are not Running."
recordPodError(podErrors, name, status) ==
    IF status # "Running" THEN podErrors
    ELSE [podErrors EXCEPT ![name] = @ + 1]

\* recordNodeError(name) for every name of a set
recordNodeErrors(nodeErrors, names) ==
    [n \in DOMAIN nodeErrors |-> IF n \in names THEN nodeErrors[n] + 1 ELSE nodeErrors[n]]

\* newKubeSource, newExternalSource
InitSource ==
    /\ MgrInit(GeneralCfg) /\ AggIdle /\ MainIdle /\ StoreIdle /\ SinkIdle
    /\ HkIdle /\ ApiIdle /\ MtIdle /\ ExpIdle
    /\ ksProgram \in {"kube", "external"}
    /\ IF ksProgram = "kube"
       THEN ksStatus \in [{KsPods[i] : i \in 1..Len(KsPods)} -> Phases]
       ELSE ksStatus = <<>>
    /\ ksPc = "idle"
    /\ ksTodoPods = <<>>
    /\ ksTodoNodes = {}
    /\ ksNodeErrors = [n \in KsNodes |-> 0]
    /\ ksPodErrors = [i \in {KsPods[i] : i \in 1..Len(KsPods)} |-> 0]
    /\ ksGoodNodes = {}
    /\ ksData = {}
    /\ ksRet = NoReturn
    /\ ksFailed = {}
    /\ ksCalls = 0

\* KubeSource.GetInfo up to the loop over the pods: getPods() lists the pods, which may
\* fail; every pod is parsed and its host looked up.  The pods of this model all run
\* on hosts whose lookup succeeds.
KubeGetPods ==
    /\ ksProgram = "kube"
    /\ ksPc = "idle"
    /\ ksCalls < MaxGetInfo
    /\ ksCalls' = ksCalls + 1
    /\ ksData' = {}
    /\ \E err \in BOOLEAN :
        IF err
        THEN /\ ksRet' = [called |-> TRUE, err |-> TRUE, data |-> {}]
             /\ UNCHANGED <<ksPc, ksTodoPods>>
        ELSE /\ ksPc' = "pods"
             /\ ksTodoPods' = KsPods
             /\ ksRet' = NoReturn
    /\ UNCHANGED <<notKs, ksProgram, ksStatus, ksTodoNodes, ksNodeErrors, ksPodErrors,
                   ksGoodNodes, ksFailed>>

\* One pass of the loop over the pods (each pod has one container):
\* getStatsFromKubelet(pod, container.Name).
KubeFetchPod ==
    /\ ksProgram = "kube"
    /\ ksPc = "pods"
    /\ ksTodoPods # <<>>
    /\ LET pod == Head(ksTodoPods) IN
       \E o \in Outcomes :
        CASE o = "malformed" ->
                /\ ksRet' = [called |-> TRUE, err |-> TRUE, data |-> {}]
                /\ ksPc' = "idle"
                /\ ksTodoPods' = <<>>
                /\ UNCHANGED <<ksPodErrors, ksData, ksFailed>>
          [] o = "failed" ->
                /\ ksPodErrors' = recordPodError(ksPodErrors, pod, ksStatus[pod])
                /\ ksFailed' = ksFailed \cup {pod}
                /\ ksTodoPods' = Tail(ksTodoPods)
                /\ UNCHANGED <<ksRet, ksPc, ksData>>
          [] o = "ok" ->
                /\ ksData' = ksData \cup {pod}
                /\ ksTodoPods' = Tail(ksTodoPods)
                /\ UNCHANGED <<ksRet, ksPc, ksPodErrors, ksFailed>>
    /\ UNCHANGED <<notKs, ksProgram, ksStatus, ksTodoNodes, ksNodeErrors, ksGoodNodes,
                   ksCalls>>

\* getNodesInfo up to its loop: listMinions() lists the nodes, which may fail, and
\* looks up each node's address; a node whose lookup fails is counted and left out.
KubeListMinions ==
    /\ ksProgram = "kube"
    /\ ksPc = "pods"
    /\ ksTodoPods = <<>>
    /\ \E err \in BOOLEAN :
        IF err
        THEN /\ ksRet' = [called |-> TRUE, err |-> TRUE, data |-> {}]
             /\ ksPc' = "idle"
             /\ UNCHANGED <<ksTodoNodes, ksNodeErrors, ksGoodNodes>>
        ELSE \E bad \in SUBSET KsNodes :
             /\ ksNodeErrors' = recordNodeErrors(ksNodeErrors, bad)
             /\ ksGoodNodes' = KsNodes \ bad
             /\ ksTodoNodes' = KsNodes \ bad
             /\ ksPc' = "nodes"
             /\ UNCHANGED ksRet
    /\ UNCHANGED <<notKs, ksProgram, ksStatus, ksTodoPods, ksPodErrors, ksData, ksFailed,
                   ksCalls>>

\* One pass of the loop over kubeNodes.Hosts, a map:
\* getStatsFromKubelet(Pod{HostIP: ip}, "/"), whose pod has no Status.
KubeFetchNode ==
    /\ ksProgram = "kube"
    /\ ksPc = "nodes"
    /\ \E node \in ksTodoNodes : \E o \in Outcomes :
        CASE o = "malformed" ->
                /\ ksRet' = [called |-> TRUE, err |-> TRUE, data |-> {}]
                /\ ksPc' = "idle"
                /\ ksTodoNodes' = {}
                /\ UNCHANGED <<ksPodErrors, ksData, ksFailed>>
          [] o = "failed" ->
                /\ ksPodErrors' = recordPodError(ksPodErrors, node, "")
                /\ ksFailed' = ksFailed \cup {node}
                /\ ksTodoNodes' = ksTodoNodes \ {node}
                /\ UNCHANGED <<ksRet, ksPc, ksData>>
          [] o = "ok" ->
                /\ ksData' = ksData \cup {node}
                /\ ksTodoNodes' = ksTodoNodes \ {node}
                /\ UNCHANGED <<ksRet, ksPc, ksPodErrors, ksFailed>>
    /\ UNCHANGED <<notKs, ksProgram, ksStatus, ksTodoPods, ksNodeErrors, ksGoodNodes,
                   ksCalls>>

\* return ContainerData{Pods: pods, Machine: nodesInfo}, nil
\* return result, nil
SourceReturn ==
    /\ ksProgram # "none"
    /\ ksPc = "nodes"
    /\ ksTodoNodes = {}
    /\ ksRet' = [called |-> TRUE, err |-> FALSE, data |-> ksData]
    /\ ksPc' = "idle"
    /\ UNCHANGED <<notKs, ksProgram, ksStatus, ksTodoPods, ksTodoNodes, ksNodeErrors,
                   ksPodErrors, ksGoodNodes, ksData, ksFailed, ksCalls>>

\* externalSource.GetInfo up to its loop: nodesApi.List()
ExternalList ==
    /\ ksProgram = "external"
    /\ ksPc = "idle"
    /\ ksCalls < MaxGetInfo
    /\ ksCalls' = ksCalls + 1
    /\ ksData' = {}
    /\ \E err \in BOOLEAN :
        IF err
        THEN /\ ksRet' = [called |-> TRUE, err |-> TRUE, data |-> {}]
             /\ UNCHANGED <<ksPc, ksTodoNodes>>
        ELSE /\ ksPc' = "nodes"
             /\ ksTodoNodes' = KsNodes
             /\ ksRet' = NoReturn
    /\ UNCHANGED <<notKs, ksProgram, ksStatus, ksTodoPods, ksNodeErrors, ksPodErrors,
                   ksGoodNodes, ksFailed>>

\* One pass of the loop over nodeList.Items, a map: cadvisorApi.GetAllContainers;
\* "if err != nil { glog.Error(err); continue }".
ExternalFetchNode ==
    /\ ksProgram = "external"
    /\ ksPc = "nodes"
    /\ \E node \in ksTodoNodes : \E err \in BOOLEAN :
        /\ ksTodoNodes' = ksTodoNodes \ {node}
        /\ IF err
           THEN ksFailed' = ksFailed \cup {node} /\ UNCHANGED ksData
           ELSE ksData' = ksData \cup {node} /\ UNCHANGED ksFailed
    /\ UNCHANGED <<notKs, ksProgram, ksStatus, ksPc, ksTodoPods, ksNodeErrors, ksPodErrors,
                   ksGoodNodes, ksRet, ksCalls>>

NextSource ==
    \/ KubeGetPods
    \/ KubeFetchPod
    \/ KubeListMinions
    \/ KubeFetchNode
    \/ SourceReturn
    \/ ExternalList
    \/ ExternalFetchNode

\* ------------------------------------------------------------------ the sinks endpoint
MaxPosts == 2
MaxSinks == 2

SinkUris == {"gcm", "influxdb"}
\* the []string values: a nil slice, or a slice with its items
NilSlice == [nil |-> TRUE, items |-> <<>>]
Slice(items) == [nil |-> FALSE, items |-> items]
SinkLists == UNION {[1..n -> SinkUris] : n \in 0..MaxSinks}
NotRead == [read |-> FALSE, sinks |-> NilSlice]
notApi == <<mgrVars, aggVars, mainVars, ssVars, hkVars, ksVars, mtVars, expVars,
          sinkVars>>

\* json.Marshal of a []string: null for a nil slice, else an array
Marshal(v) == IF v.nil THEN [kind |-> "null", items |-> <<>>]
              ELSE [kind |-> "array", items |-> v.items]

\* json.Unmarshal(body, &sinks) into a nil []string: null leaves it nil
Unmarshal(body) == IF body.kind = "null" THEN NilSlice ELSE Slice(body.items)

\* NewApi: the Api has no field for sinks
InitSinksApi ==
    /\ MgrInit(GeneralCfg) /\ AggIdle /\ MainIdle /\ StoreIdle /\ SinkIdle
    /\ HkIdle /\ KsIdle /\ MtIdle /\ ExpIdle
    /\ apiPosted = <<>>
    /\ apiGot = NotRead

\* POST of the list to the sinks endpoint: Api.setSinks has an empty body, the request
\* is answered and nothing is kept.
SetSinks ==
    /\ Len(apiPosted) < MaxPosts
    /\ \E S \in SinkLists :
        LET body == Marshal(Slice(S))
        IN  apiPosted' = Append(apiPosted, Unmarshal(body).items)
    /\ apiGot' = NotRead
    /\ UNCHANGED notApi

\* GET of the sinks endpoint: Api.getSinks writes "var strs []string", a nil slice,
\* and the client decodes the body.
GetSinks ==
    /\ LET strs == NilSlice
           body == Marshal(strs)
       IN  apiGot' = [read |-> TRUE, sinks |-> Unmarshal(body)]
    /\ UNCHANGED <<notApi, apiPosted>>

NextSinksApi ==
    \/ SetSinks
    \/ GetSinks

\* ------------------------------------------------------------------ SupportedMetrics
MaxRaw == 70
MaxMetric == 2
MaxValues == 2

\* The width of int64 and uint64, scaled down: the integers of the model checker are
\* narrower than 64 bits.  The arithmetic below is that of Go at this width.
WordBits == 16
Word == 2 ^ WordBits
MaxInt == Word \div 2 - 1

\* conversion to the unsigned type, and the product of unsigned values: modulo 2^w
toUint(x) == x % Word
\* conversion to the signed type: the same bits, read in two's complement
toInt(x) == IF (x % Word) > MaxInt THEN (x % Word) - Word ELSE x % Word
\* integer division of Go: the quotient is truncated toward zero
quot(a, b) == IF a >= 0 THEN a \div b ELSE -((-a) \div b)

notMt == <<mgrVars, aggVars, mainVars, ssVars, hkVars, ksVars, apiVars, expVars,
          sinkVars>>
notExp == <<mgrVars, aggVars, mainVars, ssVars, hkVars, ksVars, apiVars, mtVars,
          sinkVars>>
MetricNames == {"cpu/limit", "cpu/request"}

\* A variant that the code does not have: cpu/limit taken over as it is.
cpuLimitRaw(spec) == toInt(spec.Cpu.Limit)

\* cpu/limit, GetValue: int64(spec.Cpu.Limit*1000) / 1024, Limit being a uint64
cpuLimit(spec) == quot(toInt(toUint(spec.Cpu.Limit * 1000)), 1024)

\* cpu/request, GetValue: spec.CpuRequest
cpuRequest(spec) == spec.CpuRequest

\* HasValue of the two metrics
HasValue(name, spec) ==
    IF name = "cpu/limit" THEN spec.HasCpu /\ spec.Cpu.Limit > 0
    ELSE spec.CpuRequest > 0

GetValue(name, spec) ==
    IF name = "cpu/limit" THEN cpuLimit(spec) ELSE cpuRequest(spec)

\* a ContainerSpec, of which HasCpu, Cpu.Limit and CpuRequest matter
InitMetrics ==
    /\ MgrInit(GeneralCfg) /\ AggIdle /\ MainIdle /\ StoreIdle /\ SinkIdle
    /\ HkIdle /\ KsIdle /\ ApiIdle
    /\ ExpIdle
    /\ mtSpec \in [HasCpu : BOOLEAN, Cpu : [Limit : 0..MaxRaw], CpuRequest : 0..MaxRaw]
    /\ mtOut = <<>>

\* The metrics of a container are computed: for each metric, HasValue and, if it
\* holds, GetValue.
ComputeMetrics ==
    /\ mtSpec # <<>>
    /\ mtOut = <<>>
    /\ mtOut' = [name \in MetricNames |->
                    IF HasValue(name, mtSpec)
                    THEN [has |-> TRUE, Value |-> GetValue(name, mtSpec)]
                    ELSE [has |-> FALSE, Value |-> 0]]
    /\ UNCHANGED <<notMt, mtSpec>>

NextMetrics == ComputeMetrics

\* ------------------------------------------------------------------ exportTimestampedMetricValue
\* A FloatValue is held as a number of halves.
Halves == 2
IntValues == (-MaxMetric)..MaxMetric
FloatValues == (-MaxMetric * Halves)..(MaxMetric * Halves)
Timestamps == 0..1
TimestampedMetricValues ==
    [Timestamp : Timestamps, ValueType : {"ValueInt64"}, IntValue : IntValues, FloatValue : {0}]
    \cup [Timestamp : Timestamps, ValueType : {"ValueFloat"}, IntValue : {0},
          FloatValue : FloatValues]

\* int64(value.FloatValue): the fraction is dropped
floatToInt(f) == toInt(quot(f, Halves))

\* uint64(intValue)
pointValue(intValue) == toUint(intValue)

\* the one pass of the loop that makes a value's point
exportPoint(value) ==
    LET intValue == IF value.ValueType = "ValueInt64" THEN value.IntValue
                    ELSE floatToInt(value.FloatValue)
    IN  [Timestamp |-> value.Timestamp, Value |-> pointValue(intValue)]

\* result.LatestTimestamp: the zero time, or the greatest Timestamp of the values
LatestTimestamp(values) ==
    IF values = <<>> THEN NoTime
    ELSE CHOOSE t \in {values[i].Timestamp : i \in 1..Len(values)} :
            \A i \in 1..Len(values) : values[i].Timestamp <= t

InitPoints ==
    /\ MgrInit(GeneralCfg) /\ AggIdle /\ MainIdle /\ StoreIdle /\ SinkIdle
    /\ HkIdle /\ KsIdle /\ ApiIdle
    /\ MtIdle
    /\ expValues \in UNION {[1..n -> TimestampedMetricValues] : n \in 0..MaxValues}
    /\ expResult = <<>>

exportTimestampedMetricValue ==
    /\ expResult = <<>>
    /\ expValues \in Seq(TimestampedMetricValues)
    /\ expResult' = [LatestTimestamp |-> LatestTimestamp(expValues),
                     Metrics |-> [i \in 1..Len(expValues) |-> exportPoint(expValues[i])]]
    /\ UNCHANGED <<notExp, expValues>>

NextPoints == exportTimestampedMetricValue

\* ------------------------------------------------------------------ specifications
NextExport ==
    \/ ExportDataCall
    \/ DataHandoff
    \/ PushTimeout
    \/ SinkDone
    \/ ExportDataReturn
    \/ Tick

Next ==
    \/ ExportDataCall
    \/ DataHandoff
    \/ PushTimeout
    \/ SinkDone
    \/ ExportDataReturn
    \/ StopCall
    \/ StopHandoff
    \/ StopTimeout
    \/ Tick

\* The Go scheduler runs every goroutine that can run, timers fire and time passes.
\* Nothing obliges a sink's ExportData to return or the environment to call.
Fairness ==
    /\ WF_vars(DataHandoff)
    /\ WF_vars(PushTimeout)
    /\ WF_vars(ExportDataReturn)
    /\ WF_vars(Tick)

Spec == Init /\ [][Next]_vars
SpecExportLive == Init /\ [][NextExport]_vars /\ Fairness
SpecMetric == InitMetric /\ [][Next]_vars
SpecWavefront == InitWavefront /\ [][Next]_vars
SpecScenario == InitScenario /\ [][NextExport]_vars
SpecNodeAgg == InitNodeAgg /\ [][NextNodeAgg]_vars
SpecAgg == InitAgg /\ [][NextAgg]_vars
SpecMain == InitMain /\ [][NextMain]_vars
SpecStore == InitStore /\ [][NextStore]_vars
SpecHousekeep == InitHousekeep /\ [][NextHousekeep]_vars
SpecPoll == InitPoll /\ [][NextPoll]_vars
SpecSource == InitSource /\ [][NextSource]_vars
SpecSinksApi == InitSinksApi /\ [][NextSinksApi]_vars
SpecMetrics == InitMetrics /\ [][NextMetrics]_vars
SpecPoints == InitPoints /\ [][NextPoints]_vars
SpecStoreAverage == InitStore /\ [][NextStoreAverage]_vars

\* ------------------------------------------------------------------ properties
T == cfg.exportDataTimeout
Range(f) == {f[i] : i \in DOMAIN f}
NoStopYet == MadeStops = {}

\* C1 (as stated): a batch is never dropped for a sink whose holder was idle when
\* ExportData was called.
C1_IdleHolderAlwaysReceives ==
    \A c \in Calls, h \in Holders : pusher[c][h] = "timedout" => idleSeen[c][h] # "atCall"

\* C1 (amended): as long as ExportData calls have not overlapped and Stop() has not
\* been called, a batch is dropped for a holder only if that holder was not idle when
\* ExportData was called and has been inside sink.ExportData for the whole
\* exportDataTimeout; so every sink whose holder was idle receives the batch, however
\* long another sink stays busy.
C1_DropOnlyForBusyHolder ==
    [][\A c \in Calls, h \in Holders :
        (pusher[c][h] = "waiting" /\ pusher'[c][h] = "timedout" /\ ~overlap /\ NoStopYet)
            => /\ idleSeen[c][h] = "no"
               /\ hstate[h] = "export" => hbusy[h] >= T]_vars

\* C1 witness: a call whose batch was dropped for busy "A" and taken by idle "B".
C1_Witness ==
    \E c \in Calls :
        /\ callState[c] = "active" /\ ~overlap /\ NoStopYet
        /\ pusher[c]["A"] = "timedout" /\ pusher[c]["B"] = "sent"
        /\ c \in Range(received["B"]) /\ c \notin Range(received["A"])
        /\ callAge[c] = T

Increasing(q) == \A i, j \in DOMAIN q : i < j => q[i] < q[j]
M == MetricSinkHolder
FastMetricSink == cfg.maxDur[M] >= 0 /\ cfg.maxDur[M] < T

\* C2 (as stated): the manager never drops a batch for the in-process metric sink,
\* however long that sink's previous export takes.
C2_MetricSinkNeverDropped ==
    \A c \in Calls : pusher[c][M] # "timedout"

\* C2 (amended): the manager treats the in-process metric sink like every other sink.
\* As long as that sink's ExportData returns in less than exportDataTimeout, ExportData
\* calls have not overlapped and Stop() has not been called, no batch is dropped for it
\* and every batch of a returned ExportData call has been passed to its ExportData.
C2_FastMetricSinkGetsEveryBatch ==
    (FastMetricSink /\ ~overlap /\ NoStopYet) =>
        \A c \in Calls :
            /\ pusher[c][M] # "timedout"
            /\ callState[c] = "returned" => c \in Range(received[M])

\* C2 witness: a fast metric sink has been given a later batch that was dropped for
\* the other, busy sink.
C2_Witness ==
    /\ FastMetricSink /\ ~overlap /\ NoStopYet
    /\ \E c \in Calls :
        /\ c > 1 /\ callState[c] = "returned"
        /\ c \in Range(received[M]) /\ c \notin Range(received["A"])

\* C3: while ExportData calls have not overlapped, the batches each sink's ExportData
\* has been invoked with are in the order of the calls, none of them twice.
C3_DeliveredInCallOrder ==
    ~overlap => \A h \in Holders : Increasing(received[h])

\* C3 witness: after non-overlapping calls one sink has got both batches and the
\* other sink only the first.
C3_Witness ==
    /\ ~overlap
    /\ \A c \in Calls : callState[c] = "returned"
    /\ Len(received["B"]) = cfg.maxCalls
    /\ received["A"] = <<1>>

\* C4: every ExportData call returns; while it is in progress no more than
\* exportDataTimeout has passed since it was made; and it returns only once every
\* holder has accepted the batch or exportDataTimeout has elapsed for that holder.
C4_ExportDataReturnsInTime ==
    /\ \A c \in 1..MaxCalls : (callState[c] = "active") ~> (callState[c] = "returned")
    /\ [](\A c \in Calls : callState[c] = "active" => callAge[c] <= T)
    /\ [][\A c \in Calls :
            (callState[c] = "active" /\ callState'[c] = "returned") =>
                \A h \in Holders :
                    \/ pusher[c][h] = "sent"
                    \/ pusher[c][h] = "timedout" /\ callAge[c] >= T]_vars

\* C4 witness: a call is in progress, every sink is blocked in an export and the
\* call's exportDataTimeout has elapsed for both holders.
C4_Witness ==
    \E c \in Calls :
        /\ callState[c] = "active" /\ callAge[c] = T
        /\ \A h \in Holders : pusher[c][h] = "timedout" /\ hstate[h] = "export"

\* C5 (as stated): the caller of ExportData is not held up by a busy sink: no time
\* passes between the call and its return.
C5_CallerNeverHeld ==
    \A c \in Calls : callState[c] = "active" => callAge[c] = 0

\* C5 (amended): the caller of ExportData is held up only while some holder has not
\* accepted the batch because it is not idle, and for no longer than exportDataTimeout;
\* it never waits for a sink to finish the batch.
C5_CallerHeldOnlyUntilAcceptOrTimeout ==
    [][\A c \in Calls :
        (callState[c] = "active" /\ callAge'[c] > callAge[c]) =>
            /\ callAge[c] < T
            /\ \E h \in Holders : pusher[c][h] = "waiting" /\ hstate[h] # "select"]_vars

\* C5 witness: a caller has been held for exportDataTimeout by a sink that is still
\* exporting an earlier batch, while the other sink is already exporting this one.
C5_Witness ==
    \E c \in Calls :
        /\ callState[c] = "active" /\ callAge[c] = T
        /\ pusher[c]["A"] = "waiting" /\ hstate["A"] = "export"
        /\ received["A"][Len(received["A"])] < c
        /\ hstate["B"] = "export" /\ received["B"][Len(received["B"])] = c

\* C6 (as stated): in the sink isolation scenario, after 60 s sink "B" has received
\* exactly 6 batches and sink "A" exactly 2.
C6_AfterSixtySecondsAGotTwo ==
    clock = cfg.horizon => Len(received["B"]) = 6 /\ Len(received["A"]) = 2

\* C6 (amended): in the sink isolation scenario, after 60 s sink "B" has received
\* exactly 6 batches and sink "A" exactly 3: the first at 0 s and one more each time
\* it became idle, at 25 s and at 50 s; the other 3 batches are dropped for "A" only.
C6_AfterSixtySecondsAGotThree ==
    /\ clock = cfg.horizon => Len(received["B"]) = 6 /\ Len(received["A"]) = 3
    /\ hstate["A"] = "export" =>
            /\ clock - hbusy["A"] = 5 * (Len(received["A"]) - 1)
            /\ received["A"][1] = 1

\* C6 witness: 60 s have passed, "A" is 10 s into its third batch and "B" has got
\* all six.
C6_Witness ==
    /\ clock = cfg.horizon /\ cfg.horizon = 12
    /\ Len(received["A"]) = 3 /\ hstate["A"] = "export" /\ hbusy["A"] = 2
    /\ received["B"] = <<1, 2, 3, 4, 5, 6>>

StopT == cfg.stopTimeout
BatchPending(h) == \E c \in Calls : pusher[c][h] = "waiting"

\* C7 (as stated): a holder that is idle within stopTimeout of a Stop() call receives
\* the stop signal: with the signal on offer and its timer still running, the idle
\* holder does not go on to export a batch.
C7_IdleHolderTakesStopSignal ==
    [][\A s \in Stops, h \in Holders :
        (stopper[s][h] = "waiting" /\ stopAge[s] < StopT /\ hstate[h] = "select")
            => hstate'[h] # "export"]_vars

\* C7 (amended): a holder that is idle within stopTimeout of a Stop() call while no
\* batch is waiting to be handed to it receives the stop signal before time passes,
\* calls sink.Stop() once and terminates (a holder for which a batch is waiting may
\* take the batch instead, and is abandoned if that export outlasts stopTimeout).  The
\* signal is given up only once stopTimeout has elapsed, a signal given up never causes
\* sink.Stop(), and sink.Stop() is called only on receipt of a stop signal.
C7_StopSignalTakenOrGivenUp ==
    [][\A h \in Holders :
        /\ \A s \in Stops :
            /\ (stopper[s][h] = "waiting" /\ stopAge[s] < StopT /\ hstate[h] = "select"
                    /\ ~BatchPending(h) /\ ~BatchPending(h)')
                => /\ stopper'[s][h] = "waiting" => stopAge'[s] = stopAge[s]
                   /\ hstate'[h] # "select" =>
                        hstate'[h] = "exited" /\ stopCount'[h] = stopCount[h] + 1
            /\ (stopper[s][h] = "waiting" /\ stopper'[s][h] = "timedout")
                => stopAge[s] >= StopT /\ stopCount'[h] = stopCount[h]
            /\ stopper[s][h] = "timedout" => stopper'[s][h] = "timedout"
        /\ stopCount'[h] # stopCount[h]
            => /\ stopCount'[h] = stopCount[h] + 1
               /\ hstate[h] = "select" /\ hstate'[h] = "exited"
               /\ \E s \in Stops : stopper[s][h] = "waiting" /\ stopper'[s][h] = "sent"]_vars

\* C7 witness: of one Stop() call, the idle holder has taken the signal and stopped
\* its sink, and the signal for the holder that stayed busy has been given up.
C7_Witness ==
    \E s \in Stops :
        /\ stopper[s]["A"] = "timedout" /\ hstate["A"] = "export" /\ stopCount["A"] = 0
        /\ stopper[s]["B"] = "sent" /\ hstate["B"] = "exited" /\ stopCount["B"] = 1

\* C8 (as stated): stopping the sinks never panics, in any state of a sink, and
\* repeated Stop() calls invoke each sink's Stop() at most once.
C8_StopNeverPanics ==
    ~panicked /\ \A h \in Holders : stopCount[h] <= 1

\* C9: no sink has more than one ExportData invocation that has not returned.
C9_OneExportAtATime ==
    \A h \in Holders : inFlight[h] <= 1 /\ (inFlight[h] = 1 <=> hstate[h] = "export")

\* C9 witness: a sink is exporting while a further batch and a stop signal wait for
\* its holder.
C9_Witness ==
    \E h \in Holders :
        /\ inFlight[h] = 1
        /\ \E c \in Calls : pusher[c][h] = "waiting"
        /\ \E s \in Stops : stopper[s][h] = "waiting"

RECURSIVE SumValues(_, _)
SumValues(sets, keys) ==
    IF keys = {} THEN 0
    ELSE LET k == CHOOSE x \in keys : TRUE
         IN  sets[k].value + SumValues(sets, keys \ {k})

PodsOfNode(n) ==
    {k \in DOMAIN aggInput :
        aggInput[k].type = MetricSetTypePod /\ aggInput[k].nodename = n}
PodsWithoutNodename == PodsOfNode(NoLabel)

\* C10 (as stated): when Process has met a pod without nodename label it still returns
\* the batch, with every input key in it and every other pod's value summed into the
\* node it names.
C10_PodWithoutNodenameOnlySkipped ==
    (aggRet \in {"ok", "error"} /\ PodsWithoutNodename # {}) =>
        /\ aggResult = DOMAIN aggInput
        /\ \A n \in Nodes :
            NodeKey(n) \in DOMAIN aggInput =>
                aggSets[NodeKey(n)].value =
                    aggInput[NodeKey(n)].value + SumValues(aggInput, PodsOfNode(n))

\* The batch Process returned: its keys and the metric set each is bound to.
ResultKeys == {KeyOf(a) : a \in aggResult}
ResultSet(k) == aggSets[CHOOSE a \in aggResult : KeyOf(a) = k]
Returned(name) == aggKind = name /\ aggRet = "ok"
ClusterChildren ==
    {k \in DOMAIN aggInput :
        aggInput[k].type \in {MetricSetTypeNamespace, MetricSetTypeSystemContainer}}
\* The nodes that pods of the input name and the input has no metric set for.
AbsentNodes ==
    {n \in Nodes : PodsOfNode(n) # {} /\ NodeKey(n) \notin DOMAIN aggInput}

\* C11 (as stated): when the parent of a child is absent from the batch, the returned
\* batch has the parent, carrying only its metric_set_type label and the sum of its
\* children: the node a pod names, and the cluster set.
C11_AbsentParentCreated ==
    /\ Returned(NodeAggregatorName) =>
        \A n \in AbsentNodes :
            /\ NodeKey(n) \in ResultKeys
            /\ ResultSet(NodeKey(n)) =
                [type |-> MetricSetTypeNode, nodename |-> NoLabel,
                 value |-> SumValues(aggInput, PodsOfNode(n))]
    /\ (Returned(ClusterAggregatorName) /\ ClusterChildren # {}
            /\ ClusterKey \notin DOMAIN aggInput) =>
        /\ ClusterKey \in ResultKeys
        /\ ResultSet(ClusterKey) =
            [type |-> MetricSetTypeCluster, nodename |-> NoLabel,
             value |-> SumValues(aggInput, ClusterChildren)]

\* C11 (amended): ClusterAggregator creates the cluster set when the batch has none,
\* carrying only the metric_set_type label, and sums the namespace and sys_container
\* sets into it.  NodeAggregator does not create a node that is absent from the batch:
\* it logs a warning and leaves the pod as it is, and the returned batch has exactly
\* the keys of the input.
C11_OnlyClusterCreated ==
    /\ Returned(NodeAggregatorName) =>
        /\ ResultKeys = DOMAIN aggInput
        /\ \A n \in AbsentNodes :
            /\ NodeKey(n) \notin ResultKeys
            /\ \A k \in PodsOfNode(n) : k \in aggWarned /\ ResultSet(k) = aggInput[k]
    /\ (Returned(ClusterAggregatorName) /\ ClusterChildren # {}
            /\ ClusterKey \notin DOMAIN aggInput) =>
        /\ ResultKeys = DOMAIN aggInput \cup {ClusterKey}
        /\ ResultSet(ClusterKey) =
            [type |-> MetricSetTypeCluster, nodename |-> NoLabel,
             value |-> SumValues(aggInput, ClusterChildren)]

\* C11 witness: a batch without cluster set came back with a new cluster set that
\* holds the sum of two children.
C11_Witness ==
    /\ Returned(ClusterAggregatorName)
    /\ ClusterKey \notin DOMAIN aggInput
    /\ Cardinality(ClusterChildren) >= 2
    /\ NewClusterSet \in aggResult
    /\ aggSets[NewClusterSet].value >= 2

\* The parent carries no value of the aggregated metric in the input.
CarriesNothing(k) == k \in DOMAIN aggInput => aggInput[k].value = 0

\* C12 (as stated, for parents that carry no value of their own in the input): after
\* Process the cluster set holds the sum over the namespace and sys_container sets of
\* the batch, and every node set the sum over the pods that name the node.
C12_ParentHoldsSumOfChildren ==
    aggRet \in {"ok", "error"} =>
        /\ aggKind = NodeAggregatorName =>
            \A n \in Nodes :
                (NodeKey(n) \in DOMAIN aggInput /\ CarriesNothing(NodeKey(n))) =>
                    /\ NodeKey(n) \in ResultKeys
                    /\ ResultSet(NodeKey(n)).value = SumValues(aggInput, PodsOfNode(n))
        /\ (aggKind = ClusterAggregatorName /\ CarriesNothing(ClusterKey)
                /\ (ClusterChildren # {} \/ ClusterKey \in DOMAIN aggInput)) =>
            /\ ClusterKey \in ResultKeys
            /\ ResultSet(ClusterKey).value = SumValues(aggInput, ClusterChildren)

\* The batch Process returned: the metric sets bound in the result; empty when Process
\* returned nil.
ReturnedBatch == [k \in ResultKeys |-> ResultSet(k)]

\* The range loop of ClusterAggregator.Process carried out over the keys in one fixed
\* order.
RECURSIVE ClusterRange(_, _)
ClusterRange(st, keys) ==
    IF keys = {} THEN st
    ELSE LET key == CHOOSE k \in keys : TRUE
         IN  ClusterRange(ClusterVisit(st, key), keys \ {key})

InOneOrder ==
    LET st == ClusterRange([sets |-> aggInput, result |-> {}], DOMAIN aggInput)
    IN  [k \in {KeyOf(a) : a \in st.result} |->
            st.sets[CHOOSE a \in st.result : KeyOf(a) = k]]

\* What NodeAggregator.Process returns for the input, whatever the order: nothing when
\* a pod lacks its nodename, otherwise the input with every node holding its own value
\* plus that of the pods naming it.
NodeBatchOf(b) ==
    IF \E k \in DOMAIN b : b[k].type = MetricSetTypePod /\ b[k].nodename = NoLabel
    THEN << >>
    ELSE [k \in DOMAIN b |->
            IF b[k].type = MetricSetTypeNode
            THEN [b[k] EXCEPT !.value = @ + SumValues(b, PodsOfNode(k[2]))]
            ELSE b[k]]

\* C13 (as stated): the batch that Process returns is determined by the input batch: it
\* is the same for every order in which the range loop visits the keys, also when the
\* input already holds the parent set.
C13_ReturnedBatchIndependentOfOrder ==
    aggRet \in {"ok", "error"} =>
        /\ aggKind = NodeAggregatorName => ReturnedBatch = NodeBatchOf(aggInput)
        /\ aggKind = ClusterAggregatorName => ReturnedBatch = InOneOrder

Enrichers == {"PodBasedEnricher", "NamespaceBasedEnricher", "NodeAutoscalingEnricher"}
Aggregators == {"PodAggregator", "NamespaceAggregator", "NodeAggregator", "ClusterAggregator"}

\* The stage of an aggregator in the order Pod, then Namespace and Node, then Cluster.
Stage(p) ==
    CASE p = "PodAggregator" -> 1
      [] p \in {"NamespaceAggregator", "NodeAggregator"} -> 2
      [] p = "ClusterAggregator" -> 3

\* Processor a stands before processor b in the chain.
Before(a, b) ==
    \E i, j \in 1..Len(dataProcessors) :
        i < j /\ dataProcessors[i] = a /\ dataProcessors[j] = b

\* The processors that have run on the current batch are the chain's first ones, in
\* the chain's order.
RunsInChainOrder ==
    /\ Len(processed) <= Len(dataProcessors)
    /\ processed = SubSeq(dataProcessors, 1, Len(processed))

AggregatorsInOrder ==
    \A a, b \in Aggregators : (Before(a, b) => Stage(a) <= Stage(b))

Queries ==
    [last |-> Last(ssBuffer, ssLastPut),
     max |-> MaxOf(ssBuffer),
     average |-> Average(ssBuffer, ssCfg.epsilon),
     percentile |-> [p \in Percentiles |-> Percentile(ssBuffer, p)],
     get |-> Get(ssBuffer, NoTime, NoTime),
     getSince |-> Get(ssBuffer, ssFirst, NoTime)]

GetAll == Get(ssBuffer, NoTime, NoTime)

\* The step is a Put whose timestamp falls in a resolution older than, the same as, or
\* later than the open one.
PutOlder == Opened /\ ssArg' < ssLastPut.stamp
PutSame == Opened /\ ssArg' = ssLastPut.stamp /\ ssOpenValues' # ssOpenValues
PutLater == Opened /\ ssArg' > ssLastPut.stamp

\* The values put in the open resolution: how many, their sum, the greatest.
OpenCount == ssLastPut.count
RECURSIVE BagSum(_, _)
BagSum(bag, vs) ==
    IF vs = {} THEN 0
    ELSE LET v == CHOOSE x \in vs : TRUE
         IN  v * bag[v] + BagSum(bag, vs \ {v})
RECURSIVE BagCount(_, _)
BagCount(bag, vs) ==
    IF vs = {} THEN 0
    ELSE LET v == CHOOSE x \in vs : TRUE
         IN  bag[v] + BagCount(bag, vs \ {v})
PutValues == {v \in Samples : ssOpenValues[v] > 0}

\* bucket(v): the least multiple of epsilon that is at least v
bucket(v) ==
    CHOOSE m \in {k * ssCfg.epsilon : k \in 0..MaxSample} :
        m >= v /\ m - ssCfg.epsilon < v
MaxBucket ==
    CHOOSE m \in {bucket(v) : v \in PutValues} : \A v \in PutValues : bucket(v) <= m
\* The least multiple of epsilon that is at least the mean of the values put in the
\* open resolution.
MeanBucket ==
    LET sum == BagSum(ssOpenValues, Samples)
        count == BagCount(ssOpenValues, Samples)
    IN  CHOOSE m \in {k * ssCfg.epsilon : k \in 0..MaxSample} :
            m * count >= sum /\ (m - ssCfg.epsilon) * count < sum

\* C15: a Put whose timestamp falls in a resolution older than the open one returns an
\* error and changes neither the committed samples nor the open resolution, so that
\* every query returns then and later what it would have returned without the Put.
C15_OutOfOrderPutChangesNothing ==
    [][PutOlder =>
        /\ ssRet' = "error"
        /\ Queries' = Queries
        /\ ssBuffer' = ssBuffer
        /\ ssLastPut' = ssLastPut]_vars

\* A Put into an older resolution has been refused while samples are committed.
C15_Witness ==
    /\ ssRet = "error"
    /\ ssArg < ssLastPut.stamp
    /\ ssBuffer # <<>>

\* C16: the queries draw on the committed resolutions only: a Put into the open
\* resolution changes none of their results, no returned sample is of the open
\* resolution, and while all Puts so far fall into one resolution Last, Max and Average
\* return an error and Get returns nothing.
C16_QueriesOverCommittedOnly ==
    /\ [][PutSame => Queries' = Queries]_vars
    /\ [](\A i \in 1..Len(GetAll) : GetAll[i].Timestamp < ssLastPut.stamp)
    /\ [](~Queries.last.err => Queries.last.point.Timestamp < ssLastPut.stamp)
    /\ []((Opened /\ ssLastPut.stamp = ssFirst) =>
            /\ Queries.last.err /\ Queries.last.point = NoPoint
            /\ Queries.max.err /\ Queries.max.value = 0
            /\ Queries.average.err
            /\ GetAll = <<>>)

\* Samples are committed and the open resolution holds two values or more, one of them
\* greater than the maximum that Max returns.
C16_Witness ==
    /\ ssBuffer # <<>>
    /\ ssLastPut.count >= 2
    /\ ssLastPut.max > MaxOf(ssBuffer).value

\* C17 (as stated): the value committed for a resolution in which several values were
\* put is the maximum of their epsilon buckets.
C17_CommitsMaxOfBuckets ==
    [][PutLater => ssBuffer'[1].Value = MaxBucket]_vars

\* C17 (amended): the value held for the open resolution is the arithmetic mean of the
\* values put in it (their sum and their number are kept), which is at most their
\* maximum; the greatest value is kept beside it.
C17_HoldsMeanOfValues ==
    Opened =>
        /\ ssLastPut.sum = BagSum(ssOpenValues, Samples)
        /\ ssLastPut.count = BagCount(ssOpenValues, Samples)
        /\ ssLastPut.count >= 1
        /\ \A v \in PutValues : v <= ssLastPut.max
        /\ ssLastPut.max \in PutValues
        /\ ssLastPut.sum <= ssLastPut.count * ssLastPut.max

\* Several values are held whose mean lies in a lower bucket than their maximum.
C17_Witness ==
    /\ Opened
    /\ ssLastPut.count >= 2
    /\ MeanBucket < MaxBucket

\* C18: when a later Put closes a resolution, the value committed for it is the mean of
\* the values put in it, rounded up to a multiple of epsilon; so 55, 1, 12, 77 and 50000
\* commit as 10030 with epsilon 10, and 22 and 110 as 100 with epsilon 100.
C18_CommitsMeanRoundedUp ==
    /\ [][PutLater => (ssRet' = "ok" /\ ssBuffer'[1].Value = MeanBucket)]_vars
    /\ bucketOfMean([stamp |-> 0, sum |-> 55 + 1 + 12 + 77 + 50000, count |-> 5,
                     max |-> 50000], 10) = 10030
    /\ bucketOfMean([stamp |-> 0, sum |-> 22 + 110, count |-> 2, max |-> 110], 100) = 100

\* The newest committed resolution took several values, the greatest of them 2, and
\* holds a lower value: their mean, rounded up.
C18_Witness ==
    /\ ssBuffer # <<>>
    /\ ssCfg.epsilon = 1
    /\ ssBuffer[1].Max = 2
    /\ ssBuffer[1].Value = 1

\* The number of resolutions a later Put commits: the open one and the skipped ones.
Gap == (ssArg' - ssLastPut.stamp) \div TicksPerResolution

\* C19: a Put that arrives more than one resolution after the open one commits the open
\* resolution and every skipped one with the same value, at consecutive resolutions up
\* to the one before the Put's; with a gap of at least the capacity all capacity slots
\* hold that value.
C19_SkippedResolutionsFilled ==
    [][(PutLater /\ Gap >= 2) =>
        /\ Len(ssBuffer') = Min(ssCfg.capacity, Len(ssBuffer) + Gap)
        /\ \A i \in 1..Min(ssCfg.capacity, Gap) :
            /\ ssBuffer'[i].Timestamp = ssArg' - i * TicksPerResolution
            /\ ssBuffer'[i].Value = MeanBucket
        /\ \A i \in 1..(Len(ssBuffer') - 1) :
            ssBuffer'[i].Timestamp = ssBuffer'[i + 1].Timestamp + TicksPerResolution
        /\ (Gap >= ssCfg.capacity) =>
            /\ Len(ssBuffer') = ssCfg.capacity
            /\ \A i \in 1..ssCfg.capacity : ssBuffer'[i].Value = MeanBucket]_vars

\* Two Puts three resolutions apart have filled both slots of a store of capacity two.
C19_Witness ==
    /\ ssCfg.capacity = 2
    /\ ssFirst = 0
    /\ ssLastPut.stamp = 3 * TicksPerResolution
    /\ Len(ssBuffer) = 2
    /\ ssBuffer[1].Timestamp = 2 * TicksPerResolution
    /\ ssBuffer[1].Value = ssBuffer[2].Value
    /\ ssBuffer[1].Value > 0

\* The number of resolutions closed so far.
Closed == IF Opened THEN (ssLastPut.stamp - ssFirst) \div TicksPerResolution ELSE 0

\* C20: Get(zero, zero) returns the most recent closed resolutions, as many as there are
\* but at most capacity, newest first at consecutive resolutions; a commit into a full
\* store drops the oldest samples and keeps the others.
C20_GetReturnsNewestCapacity ==
    /\ [](/\ Len(GetAll) = Min(ssCfg.capacity, Closed)
          /\ \A i \in 1..Len(GetAll) :
                GetAll[i].Timestamp = ssLastPut.stamp - i * TicksPerResolution)
    /\ [][PutLater =>
            \A j \in 1..Len(ssBuffer) :
                IF Gap + j <= ssCfg.capacity
                THEN ssBuffer'[Gap + j] = ssBuffer[j]
                ELSE \A i \in 1..Len(ssBuffer') :
                        ssBuffer'[i].Timestamp # ssBuffer[j].Timestamp]_vars

\* A full store of capacity two whose first resolution has been evicted.
C20_Witness ==
    /\ ssCfg.capacity = 2
    /\ Len(GetAll) = 2
    /\ Closed = 3
    /\ GetAll[2].Timestamp > ssFirst
    /\ GetAll[1].Value # GetAll[2].Value

\* The committed samples with start < Timestamp <= end, newest first.
Between(start, end) ==
    LET in(i) == start < ssBuffer[i].Timestamp /\ ssBuffer[i].Timestamp <= end
        result[i \in 0..Len(ssBuffer)] ==
            IF i = 0 THEN <<>>
            ELSE IF in(i)
            THEN Append(result[i - 1], [Timestamp |-> ssBuffer[i].Timestamp,
                                        Value |-> ssBuffer[i].Value])
            ELSE result[i - 1]
    IN  result[Len(ssBuffer)]

\* C21 (as stated): for start <= end Get(start, end) returns exactly the committed
\* samples with start < Timestamp <= end, newest first, so never one at start and
\* always one at end; for start > end it returns nothing.
C21_GetExcludesStartIncludesEnd ==
    \A start, end \in 0..MaxTime :
        Get(ssBuffer, start, end) = IF start <= end THEN Between(start, end) ELSE <<>>

\* C22 (as stated): Average() returns the mean of the committed buckets rounded to an
\* epsilon bucket, so a multiple of epsilon, and a repeated call without an intervening
\* Put returns the same value.
C22_AverageIsMultipleOfEpsilon ==
    /\ []((ssAvgRet.called /\ ~ssAvgRet.err) => ssAvgRet.value % ssCfg.epsilon = 0)
    /\ [][(ssAvgRet.called /\ ssAvgRet'.called) => ssAvgRet' = ssAvgRet]_vars

\* C22 (amended): Average() returns the integer mean of the committed bucket values as
\* it is, not rounded to a bucket: it lies between the least and the greatest committed
\* value; while nothing is committed it returns an error and 0; a repeated call without
\* an intervening Put returns the same value.
C22_AverageIsIntegerMean ==
    /\ [](ssAvgRet.called =>
            /\ ssAvgRet.err = (ssBuffer = <<>>)
            /\ ssAvgRet.err => ssAvgRet.value = 0
            /\ ~ssAvgRet.err =>
                /\ ssAvgRet.value * Len(ssBuffer) <= SumOf(ssBuffer)
                /\ SumOf(ssBuffer) < (ssAvgRet.value + 1) * Len(ssBuffer)
                /\ \E i \in DOMAIN ssBuffer : ssBuffer[i].Value <= ssAvgRet.value
                /\ \E i \in DOMAIN ssBuffer : ssBuffer[i].Value >= ssAvgRet.value)
    /\ [][(ssAvgRet.called /\ ssAvgRet'.called) => ssAvgRet' = ssAvgRet]_vars

\* Average() has returned, from its memoised value, a mean that is no multiple of
\* epsilon.
C22_Witness ==
    /\ ssAvgRet.called
    /\ ~ssAvgRet.err
    /\ ssCache.valid
    /\ ssAvgRet.value % ssCfg.epsilon # 0

\* The greatest of the values put in the open resolution.
GreatestPut == CHOOSE m \in PutValues : \A v \in PutValues : v <= m

\* C23 (as stated): every value that Last, Get and Max return is a multiple of epsilon,
\* and Max() is the greatest committed bucket value.
C23_MaxIsGreatestBucket ==
    /\ Queries.last.point.Value % ssCfg.epsilon = 0
    /\ \A i \in 1..Len(GetAll) : GetAll[i].Value % ssCfg.epsilon = 0
    /\ Queries.max.value % ssCfg.epsilon = 0
    /\ \A i \in 1..Len(GetAll) : GetAll[i].Value <= Queries.max.value
    /\ (GetAll # <<>>) => \E i \in 1..Len(GetAll) : GetAll[i].Value = Queries.max.value

\* C23 (amended): every value that Last and Get return is a multiple of epsilon; Max()
\* is the greatest of the values put in the committed resolutions, as they were put: a
\* commit raises it to the greatest value of the closed resolution, and it falls only
\* when samples are evicted.
C23_MaxIsGreatestValuePut ==
    /\ [](/\ Queries.last.point.Value % ssCfg.epsilon = 0
          /\ \A i \in 1..Len(GetAll) : GetAll[i].Value % ssCfg.epsilon = 0)
    /\ [][PutLater =>
            /\ ~MaxOf(ssBuffer').err
            /\ MaxOf(ssBuffer').value >= GreatestPut
            /\ MaxOf(ssBuffer').value <= Max(GreatestPut, MaxOf(ssBuffer).value)
            /\ (Len(ssBuffer) + Gap <= ssCfg.capacity) =>
                MaxOf(ssBuffer').value = Max(GreatestPut, MaxOf(ssBuffer).value)]_vars

\* Max() returns a value that is no multiple of epsilon and differs from every
\* committed bucket.
C23_Witness ==
    /\ ssBuffer # <<>>
    /\ MaxOf(ssBuffer).value % ssCfg.epsilon # 0
    /\ \A i \in 1..Len(GetAll) : GetAll[i].Value # MaxOf(ssBuffer).value

\* ------------------------------------------------------------------ polling loop: properties
\* C24: a tick is received only when the calls of the tick before it have all
\* completed and none is in progress, and the calls of a tick are made one after the
\* other, each source's GetInfo before its Store, also when the tick took longer than
\* the poll period.
C24_OneScrapeCycleAtATime ==
    /\ [][hkCycle' # hkCycle =>
            /\ hkPc = "select"
            /\ (hkCycle = 0 \/ hkCalls = AllCalls)
            /\ hkCalls' = {}]_vars
    /\ [](hkPc \in {"ingetinfo", "store"} =>
            hkCalls = {c \in AllCalls : c[1] < hkSrc} \cup
                      (IF hkPc = "store" THEN {<<hkSrc, "GetInfo">>} ELSE {}))
    /\ [](hkPc = "instore" =>
            hkCalls = {c \in AllCalls : c[1] < hkSrc} \cup {<<hkSrc, "GetInfo">>})

\* The last Store of a tick is in progress longer than the poll period after the tick
\* was received, and the next tick waits.
C24_Witness ==
    /\ hkProgram = "housekeep"
    /\ hkPc = "instore"
    /\ hkSrc = NumSources
    /\ hkNow - hkCycleStart > PollDuration
    /\ hkTickPending
    /\ hkCycle >= 1

\* C25 (as stated): no failure ends the polling loop or the tick: the loop never
\* returns, and a tick in which a call failed still makes all its calls before the loop
\* waits for the next tick.
C25_FailureNeverAbortsLoop ==
    /\ hkPc # "returned"
    /\ (hkProgram = "housekeep" /\ hkPc = "select" /\ hkCycle >= 1) => hkCalls = AllCalls
    /\ (hkProgram = "doWork" /\ hkPc = "select" /\ hkCycle >= 1) =>
            hkCalls = {0} \X {"listMinions", "fetchData", "listPods", "append"}

\* C26 (as stated): the window start passed to a source's GetInfo is the window end
\* passed to that source in the tick before.
C26_WindowsContiguous ==
    [][\A i \in HkSources :
        (hkProgram = "housekeep" /\ hkWindow'[i] # hkWindow[i] /\ hkWindow[i] # NoWindow) =>
            hkWindow'[i].start = hkWindow[i].end]_vars

\* ------------------------------------------------------------------ Source.GetInfo: properties
\* C27 (as stated): a GetInfo during which a stats request for a pod or node failed
\* returns no error and the data of the others, and every pod or node whose stats
\* request has failed has a positive error counter.
C27_PartialDataAndErrorCounter ==
    /\ [](\A x \in ksFailed :
            \/ (x \in DOMAIN ksPodErrors /\ ksPodErrors[x] > 0)
            \/ (x \in DOMAIN ksNodeErrors /\ ksNodeErrors[x] > 0))
    /\ [][ksFailed' # ksFailed => (ksPc' = ksPc /\ ksRet' = ksRet /\ ksData' = ksData)]_vars

\* ------------------------------------------------------------------ the sinks endpoint: properties
\* C28 (as stated): a read of the sinks after they were set returns the list that was
\* set last.
C28_ReadBackReturnsWhatWasSet ==
    (apiPosted # <<>> /\ apiGot.read) => apiGot.sinks.items = apiPosted[Len(apiPosted)]

\* ------------------------------------------------------------------ SupportedMetrics: properties
\* the greatest integer not above raw * 1000 / 1024
IsMillicores(v, raw) == v * 1024 <= raw * 1000 /\ raw * 1000 < (v + 1) * 1024

\* C29 (as stated): cpu/limit and cpu/request, when they have a value, are both
\* floor(raw * 1000 / 1024) of the raw quantity.
C29_BothNormalisedToMillicores ==
    mtOut # <<>> =>
        /\ mtOut["cpu/limit"].has => IsMillicores(mtOut["cpu/limit"].Value, mtSpec.Cpu.Limit)
        /\ mtOut["cpu/request"].has =>
                IsMillicores(mtOut["cpu/request"].Value, mtSpec.CpuRequest)

\* C29 (amended): cpu/limit, when it has a value and raw * 1000 does not exceed the
\* greatest signed value, is floor(raw * 1000 / 1024); cpu/request, when it has a
\* value, is the raw request unchanged.
C29_LimitNormalisedRequestUnchanged ==
    mtOut # <<>> =>
        /\ (mtOut["cpu/limit"].has /\ mtSpec.Cpu.Limit * 1000 <= MaxInt) =>
                IsMillicores(mtOut["cpu/limit"].Value, mtSpec.Cpu.Limit)
        /\ mtOut["cpu/limit"].has = (mtSpec.HasCpu /\ mtSpec.Cpu.Limit > 0)
        /\ mtOut["cpu/request"].has = (mtSpec.CpuRequest > 0)
        /\ mtOut["cpu/request"].has => mtOut["cpu/request"].Value = mtSpec.CpuRequest

\* Both metrics have a value, and the two differ from their raw quantities' ratio.
C29_Witness ==
    /\ mtOut # <<>>
    /\ mtOut["cpu/limit"].has /\ mtSpec.Cpu.Limit = 30 /\ mtOut["cpu/limit"].Value = 29
    /\ mtOut["cpu/request"].has /\ mtSpec.CpuRequest = 30

\* ------------------------------------------------------------------ exportTimestampedMetricValue: properties
\* C30 (as stated): the point of a float value holds the value without its fraction,
\* the point of a negative value holds 0, and no point of a negative value holds a
\* large positive number.
C30_NegativeBecomesZero ==
    expResult # <<>> =>
        \A i \in 1..Len(expValues) :
            LET v == expValues[i]
                p == expResult.Metrics[i].Value
            IN  /\ (v.ValueType = "ValueInt64" /\ v.IntValue >= 0) => p = v.IntValue
                /\ (v.ValueType = "ValueFloat" /\ v.FloatValue >= 0) =>
                        (p * Halves <= v.FloatValue /\ v.FloatValue < (p + 1) * Halves)
                /\ (v.ValueType = "ValueInt64" /\ v.IntValue < 0) => p = 0
                /\ (v.ValueType = "ValueFloat" /\ v.FloatValue < 0) => p = 0

\* ------------------------------------------------------------------ main: startup checks
\* C31: main exits fatally before it builds anything whenever metric_resolution is
\* below 5 seconds or the number of sources is not one; with a resolution of 5 seconds
\* or more validateFlags fails only on the TLS flags.
C31_StartupChecksFlagsAndSources ==
    /\ [](argFlags # <<>> =>
            /\ argFlags.metricResolution < 5 => mainPc \in {"flags", "fatal"}
            /\ Len(argSources) # 1 => mainPc \in {"flags", "sources", "fatal"}
            /\ mainPc = "fatal" => processed = <<>>)
    /\ [][(mainPc = "flags" /\ mainPc' # "flags" /\ argFlags.metricResolution >= 5
            /\ argFlags.tlsCert = argFlags.tlsKey
            /\ (argFlags.tlsClientCA => argFlags.tlsCert))
          => mainPc' = "sources"]_vars

\* A resolution of exactly 5 seconds has passed the checks with one source.
C31_Witness ==
    /\ argFlags # <<>>
    /\ argFlags.metricResolution = 5
    /\ Len(argSources) = 1
    /\ mainPc = "enrichers"

\* ------------------------------------------------------------------ sinkManager: after Stop
\* C32: a holder that has called sink.Stop() has left its goroutine: it takes no
\* further batch, so its sink's ExportData is not invoked again; a push goroutine that
\* offers it a batch leaves only by its timeout, once exportDataTimeout has elapsed,
\* and the ExportData call is in progress for no longer than exportDataTimeout.
C32_NoExportAfterSinkStop ==
    /\ [][\A h \in Holders : hstate[h] = "exited" =>
            /\ hstate'[h] = "exited"
            /\ received'[h] = received[h]
            /\ inFlight'[h] = 0
            /\ \A c \in Calls :
                (pusher[c][h] = "waiting" /\ pusher'[c][h] # "waiting") =>
                    pusher'[c][h] = "timedout" /\ callAge[c] >= cfg.exportDataTimeout]_vars
    /\ [](\A c \in Calls, h \in Holders :
            (hstate[h] = "exited" /\ pusher[c][h] = "waiting" /\ callState[c] = "active") =>
                callAge[c] <= cfg.exportDataTimeout)

\* Both holders have stopped their sinks, neither has ever got a batch, and a call
\* made since has had its batch dropped for both.
C32_Witness ==
    \E c \in Calls :
        /\ callState[c] = "active"
        /\ \A h \in Holders :
            hstate[h] = "exited" /\ pusher[c][h] = "timedout" /\ idleSeen[c][h] = "no"

\* C33: Stop() only starts the stop goroutines and returns: the step that makes the
\* call delivers no stop signal and invokes no sink's Stop(); the call can be made
\* whatever the holders are doing; and a stop goroutine waits in the background for no
\* longer than stopTimeout.
C33_StopReturnsAtOnce ==
    /\ [][MadeStops' # MadeStops =>
            /\ hstate' = hstate
            /\ stopCount' = stopCount
            /\ \A s \in MadeStops' \ MadeStops : \A h \in Holders : stopper'[s][h] = "waiting"]_vars
    /\ []((~panicked /\ ~ReturnPending /\ MadeStops # Stops) => ENABLED StopCall)
    /\ [](\A s \in Stops : stopAge[s] <= cfg.stopTimeout)

\* Stop() has returned, every holder has stayed in an export since, no sink's Stop()
\* has been invoked and every stop signal has been given up.
C33_Witness ==
    \E s \in Stops :
        \A h \in Holders :
            stopper[s][h] = "timedout" /\ hstate[h] = "export" /\ stopCount[h] = 0

\* ------------------------------------------------------------------ aggregators: what Process leaves alone
\* The keys whose metric sets Process may add to: the nodes that pods of the input
\* name, and the cluster key.
AggParents ==
    IF aggKind = NodeAggregatorName
    THEN {NodeKey(n) : n \in {m \in Nodes : PodsOfNode(m) # {}}}
    ELSE {ClusterKey}

\* C34: when Process has returned a batch, the batch has the input's Timestamp, every
\* key of the input is bound in it to the metric set it was bound to in the input, the
\* NodeAggregator's batch has no further key and the ClusterAggregator's none but the
\* cluster key, and every metric set that is not a parent has the value it came with.
C34_ProcessKeepsTheRest ==
    (aggKind # "none" /\ aggRet = "ok") =>
        /\ aggStamp.result = aggStamp.batch
        /\ \A k \in DOMAIN aggInput : k \in aggResult
        /\ aggKind = NodeAggregatorName => ResultKeys = DOMAIN aggInput
        /\ aggKind = ClusterAggregatorName =>
                /\ DOMAIN aggInput \subseteq ResultKeys
                /\ ResultKeys \subseteq DOMAIN aggInput \cup {ClusterKey}
                /\ Cardinality(aggResult) = Cardinality(ResultKeys)
        /\ \A k \in DOMAIN aggInput \ AggParents : aggSets[k] = aggInput[k]

\* The ClusterAggregator has returned a batch whose input had the cluster set, two
\* children and a pod.
C34_Witness ==
    /\ Returned(ClusterAggregatorName)
    /\ ClusterKey \in DOMAIN aggInput
    /\ Cardinality(ClusterChildren) >= 2
    /\ PodKey("p1") \in DOMAIN aggInput
    /\ aggStamp.batch = 1

\* ------------------------------------------------------------------ sources/nodes: kubeNodes.List
notKn == <<mgrVars, aggVars, mainVars, ssVars, hkVars, ksVars, apiVars, mtVars, expVars,
          ifVars, gcVars, gcmVars>>

\* The most calls of List in a behaviour.
MaxLists == 3

\* The nodes the API server knows.
KnNodes == {"n1", "n2"}

\* What a node's Status.Addresses holds of its internal IP, and what net.LookupIP
\* of its hostname gives.
NoIP == ""
LookupResults == {"resolved", "failed"}

\* kubeNodes.recordNodeError
recordNodeError(nodeErrors, name) == [nodeErrors EXCEPT ![name] = @ + 1]

\* The body of List's loop for one node: the Info it puts in nodeList.Items.
\* The InternalIP is the node's own address, or the one looked up, or stays empty
\* when the lookup fails.
nodeInfo(address, lookup) ==
    [InternalIP |-> IF address # NoIP THEN address
                    ELSE IF lookup = "resolved" THEN "looked-up" ELSE NoIP]

\* NewKubeNodes
InitNodes ==
    /\ MgrInit(GeneralCfg) /\ AggIdle /\ MainIdle /\ StoreIdle
    /\ HkIdle /\ KsIdle /\ ApiIdle /\ MtIdle /\ ExpIdle
    /\ IfIdle /\ GcIdle /\ GcmIdle
    /\ knErrors = [n \in KnNodes |-> 0]
    /\ knGood = {}
    /\ knItems = <<>>
    /\ knRet = "none"
    /\ knFailed = {}
    /\ knCalls = 0

\* kubeNodes.List: nodeLister.List() may fail; otherwise every listed node is
\* visited, a node without internal IP is looked up, a failed lookup is logged and
\* counted, and the node is put in nodeList.Items and appended to goodNodes.
List ==
    /\ knCalls < MaxLists
    /\ knCalls' = knCalls + 1
    /\ \E err \in BOOLEAN :
        IF err
        THEN /\ knRet' = "error"
             /\ knItems' = <<>>
             /\ knFailed' = {}
             /\ UNCHANGED <<knErrors, knGood>>
        ELSE \E allNodes \in SUBSET KnNodes :
             \E address \in [allNodes -> {NoIP, "internal"}] :
             \E lookup \in [allNodes -> LookupResults] :
             LET failed == {n \in allNodes :
                               address[n] = NoIP /\ lookup[n] = "failed"}
             IN  /\ knErrors' = [n \in KnNodes |->
                                    IF n \in failed
                                    THEN recordNodeError(knErrors, n)[n]
                                    ELSE knErrors[n]]
                 /\ knItems' = [n \in allNodes |-> nodeInfo(address[n], lookup[n])]
                 /\ knGood' = allNodes
                 /\ knFailed' = failed
                 /\ knRet' = "ok"
    /\ UNCHANGED notKn

NextNodes == List

SpecNodes == InitNodes /\ [][NextNodes]_vars

\* C35: a call of List leaves a node that has no internal IP and whose lookup
\* failed out of the NodeList it returns and out of the good nodes it records, and
\* adds one to the node's error counter.
C35_FailedLookupSkipsNode ==
    [][knCalls' # knCalls =>
        \A n \in knFailed' :
            /\ knErrors'[n] = knErrors[n] + 1
            /\ n \notin DOMAIN knItems'
            /\ n \notin knGood']_vars

\* The half of C35 that the code has: the counter of each such node goes up by one,
\* and no other counter moves.
C35_FailedLookupIsCounted ==
    [][knCalls' # knCalls =>
        \A n \in KnNodes :
            knErrors'[n] = knErrors[n] + (IF n \in knFailed' THEN 1 ELSE 0)]_vars

\* ------------------------------------------------------------------ sinks: InfluxdbSink.StoreData
notIf == <<mgrVars, aggVars, mainVars, ssVars, hkVars, ksVars, apiVars, mtVars, expVars,
          knVars, gcVars, gcmVars>>

\* The most series appended in a behaviour, and the latest time.
MaxSeries == 4
MaxInfluxNow == 5

\* *argBufferDuration, ten seconds: two units of time.
BufferDuration == 2

\* The series numbered a+1 .. b, in order.
SeriesFrom(a, b) == [i \in 1..(b - a) |-> a + i]

\* The same test with a strict comparison.
readyToFlushLate(now, lastWrite) == now - lastWrite > BufferDuration

\* InfluxdbSink.readyToFlush: time.Since(self.lastWrite) >= self.bufferDuration
readyToFlush(now, lastWrite) == now - lastWrite >= BufferDuration

\* NewInfluxdbSink
InitInflux ==
    /\ MgrInit(GeneralCfg) /\ AggIdle /\ MainIdle /\ StoreIdle
    /\ HkIdle /\ KsIdle /\ ApiIdle /\ MtIdle /\ ExpIdle
    /\ KnIdle /\ GcIdle /\ GcmIdle
    /\ ifNow = 0
    /\ ifLastWrite = 0
    /\ ifSeries = <<>>
    /\ ifWrites = <<>>
    /\ ifNext = 0
    /\ ifCall = [ret |-> "none", appended |-> 0]

\* Time passes between two calls.
InfluxElapse ==
    /\ ifNow < MaxInfluxNow
    /\ ifNow' = ifNow + 1
    /\ UNCHANGED <<notIf, ifLastWrite, ifSeries, ifWrites, ifNext, ifCall>>

\* InfluxdbSink.StoreData: data of another type than ContainerData is refused;
\* otherwise handlePods and handleContainers append one series per stat, the buffer
\* is taken and lastWrite set when the sink is ready to flush, and a buffer that is
\* not empty is written; a failed write is logged.
StoreData ==
    /\ UNCHANGED notIf
    /\ \E recognized \in BOOLEAN : \E n \in 0..(MaxSeries - ifNext) : \E failed \in BOOLEAN :
        IF ~recognized
        THEN /\ ifCall' = [ret |-> "error", appended |-> 0]
             /\ UNCHANGED <<ifNow, ifLastWrite, ifSeries, ifWrites, ifNext>>
        ELSE LET series == ifSeries \o SeriesFrom(ifNext, ifNext + n)
                 ready == readyToFlush(ifNow, ifLastWrite)
                 seriesToFlush == IF ready THEN series ELSE <<>>
             IN  /\ ifNext' = ifNext + n
                 /\ ifSeries' = IF ready THEN <<>> ELSE series
                 /\ ifLastWrite' = IF ready THEN ifNow ELSE ifLastWrite
                 /\ IF Len(seriesToFlush) > 0
                    THEN ifWrites' = Append(ifWrites, [series |-> seriesToFlush,
                                                       failed |-> failed])
                    ELSE /\ ifWrites' = ifWrites
                         /\ ~failed
                 /\ ifCall' = [ret |-> "ok", appended |-> n]
                 /\ UNCHANGED ifNow

NextInflux == InfluxElapse \/ StoreData

SpecInflux == InitInflux /\ [][NextInflux]_vars

\* The number of times series i was handed to a write.
TimesWritten(i) ==
    Cardinality({<<w, k>> \in (1..Len(ifWrites)) \X (1..MaxSeries) :
                    k \in 1..Len(ifWrites[w].series) /\ ifWrites[w].series[k] = i})

TimesBuffered(i) == Cardinality({k \in 1..Len(ifSeries) : ifSeries[k] = i})

\* C36: every series appended so far is either in the buffer or was handed to
\* exactly one write, never both and never twice. A StoreData call of recognised
\* data made at least bufferDuration after lastWrite hands the whole buffer, with
\* the series it has just appended, to one write and leaves the buffer empty,
\* whether the write fails or not; a call made earlier writes nothing and keeps the
\* buffer; the call returns no error in either case.
C36_EachSeriesWrittenOnce ==
    /\ [](\A i \in 1..ifNext : TimesWritten(i) + TimesBuffered(i) = 1)
    /\ [][(ifNow' = ifNow /\ ifCall'.ret = "ok") =>
            LET all == ifSeries \o SeriesFrom(ifNext, ifNext')
            IN  IF ifNow - ifLastWrite >= BufferDuration
                THEN /\ ifSeries' = <<>>
                     /\ ifLastWrite' = ifNow
                     /\ IF all = <<>> THEN ifWrites' = ifWrites
                        ELSE /\ Len(ifWrites') = Len(ifWrites) + 1
                             /\ SubSeq(ifWrites', 1, Len(ifWrites)) = ifWrites
                             /\ ifWrites'[Len(ifWrites')].series = all
                ELSE /\ ifSeries' = all
                     /\ ifWrites' = ifWrites
                     /\ ifLastWrite' = ifLastWrite]_vars

\* Two writes were made, the first of them failed and carried series of two calls,
\* and the buffer is empty after the second.
C36_Witness ==
    /\ Len(ifWrites) = 2
    /\ ifWrites[1].failed
    /\ Len(ifWrites[1].series) >= 2
    /\ ifCall = [ret |-> "ok", appended |-> 1]
    /\ ifSeries = <<>>
    /\ ifLastWrite = ifNow
    /\ ifNext = MaxSeries

\* ------------------------------------------------------------------ sinks/cache: gcStore
notGc == <<mgrVars, aggVars, mainVars, ssVars, hkVars, ksVars, apiVars, mtVars, expVars,
          knVars, ifVars, gcmVars>>

\* The most operations on the store in a behaviour, and the latest time.
MaxGcOps == 3
MaxGcNow == 4

\* time.Unix(0, 0), and the bufferDuration given to NewGCStore: two units of time.
Epoch == 0
GcBufferDuration == 2

\* The timestamps a caller passes: before the epoch, and up to the latest time.
GcStamps == (Epoch - 1)..MaxGcNow

\* The wrapped TimeStore's Put, when it succeeds: the element is stored with its
\* timestamp.
storePut(data, timestamp, id) == data \cup {[ts |-> timestamp, id |-> id]}

\* The wrapped TimeStore's Delete, when it succeeds: the elements stored with
\* timestamps between start and end are removed.
storeDelete(data, start, end) == {el \in data : ~(start <= el.ts /\ el.ts <= end)}

\* reapOldData with an end one unit earlier.
reapOldDataShort(data, now) == storeDelete(data, Epoch, now - GcBufferDuration - 1)

\* gcStore.reapOldData, when the wrapped Delete succeeds:
\* gcs.store.Delete(time.Unix(0, 0), time.Now().Add(-gcs.bufferDuration))
reapOldData(data, now) == storeDelete(data, Epoch, now - GcBufferDuration)

\* NewGCStore on a store that holds nothing yet
InitGc ==
    /\ MgrInit(GeneralCfg) /\ AggIdle /\ MainIdle /\ StoreIdle
    /\ HkIdle /\ KsIdle /\ ApiIdle /\ MtIdle /\ ExpIdle
    /\ KnIdle /\ IfIdle /\ GcmIdle
    /\ gcNow = 0
    /\ gcData = {}
    /\ gcRet = [op |-> "none", ret |-> "none", stored |-> FALSE, removed |-> {}]
    /\ gcPc = "run"
    /\ gcOps = 0

\* Time passes between two operations.
GcElapse ==
    /\ gcPc = "run"
    /\ gcNow < MaxGcNow
    /\ gcNow' = gcNow + 1
    /\ UNCHANGED <<notGc, gcData, gcRet, gcPc, gcOps>>

\* What every operation does besides its own work.
GcOp(op, ret, stored) ==
    /\ gcPc = "run"
    /\ gcOps < MaxGcOps
    /\ gcOps' = gcOps + 1
    /\ gcRet' = [op |-> op, ret |-> ret, stored |-> stored, removed |-> gcData \ gcData']
    /\ UNCHANGED <<notGc, gcNow>>

\* gcStore.Put: the wrapped Put's error is returned; after a wrapped Put that
\* succeeded reapOldData runs, and glog.Fatalf ends the process when the wrapped
\* Delete fails.
gcPut ==
    \/ /\ UNCHANGED <<gcData, gcPc>>
       /\ GcOp("Put", "error", FALSE)
    \/ \E timestamp \in GcStamps :
        /\ gcData' = reapOldData(storePut(gcData, timestamp, gcOps + 1), gcNow)
        /\ UNCHANGED gcPc
        /\ GcOp("Put", "ok", TRUE)
    \/ \E timestamp \in GcStamps :
        /\ gcData' = storePut(gcData, timestamp, gcOps + 1)
        /\ gcPc' = "fatal"
        /\ GcOp("Put", "none", TRUE)

\* gcStore.Get: gcs.store.Get(start, end), which may return an error
gcGet ==
    /\ UNCHANGED <<gcData, gcPc>>
    /\ \E ret \in {"ok", "error"} : GcOp("Get", ret, FALSE)

\* gcStore.GetAll
gcGetAll ==
    /\ UNCHANGED <<gcData, gcPc>>
    /\ GcOp("GetAll", "ok", FALSE)

\* gcStore.Last
gcLast ==
    /\ UNCHANGED <<gcData, gcPc>>
    /\ GcOp("Last", "ok", FALSE)

\* gcStore.Delete: gcs.store.Delete(start, end), whose error is returned
gcDelete ==
    /\ UNCHANGED gcPc
    /\ \/ /\ UNCHANGED gcData
          /\ GcOp("Delete", "error", FALSE)
       \/ \E start \in GcStamps : \E end \in GcStamps :
            /\ gcData' = storeDelete(gcData, start, end)
            /\ GcOp("Delete", "ok", FALSE)

NextGc == GcElapse \/ gcPut \/ gcGet \/ gcGetAll \/ gcLast \/ gcDelete

SpecGc == InitGc /\ [][NextGc]_vars

\* The elements Put has to delete at time now.
OldData(data, now) == {el \in data : Epoch <= el.ts /\ el.ts <= now - GcBufferDuration}

\* C37: a Put whose wrapped Put failed returns the error and leaves the store as it
\* was; a Put that returns without error leaves no element, old or new, whose
\* timestamp lies between the epoch and now - bufferDuration, and adds nothing but
\* its own element; no Put removes anything unless the wrapped Put succeeded; Get,
\* GetAll and Last leave the store as it was.
C37_PutReapsIffStored ==
    [][gcOps' # gcOps =>
        /\ gcRet'.op = "Put" =>
            /\ ~gcRet'.stored => (gcRet'.ret = "error" /\ gcData' = gcData)
            /\ gcRet'.ret = "error" => ~gcRet'.stored
            /\ gcRet'.ret = "ok" =>
                /\ OldData(gcData', gcNow) = {}
                /\ \A el \in gcData : el \in gcData' \/ el \in OldData(gcData, gcNow)
                /\ \A el \in gcData' : el \in gcData \/ el.id = gcOps'
        /\ gcRet'.op \in {"Get", "GetAll", "Last"} => gcData' = gcData]_vars

\* A Put has returned without error, has removed the two elements put before it,
\* which had grown old, and has kept its own.
C37_Witness ==
    /\ gcRet.op = "Put" /\ gcRet.ret = "ok"
    /\ {el.id : el \in gcRet.removed} = {1, 2}
    /\ \E el \in gcData : el.id = gcOps

\* ------------------------------------------------------------------ sinks/gcm: gcmDriver
notGcm == <<mgrVars, aggVars, mainVars, ssVars, hkVars, ksVars, apiVars, mtVars, expVars,
           knVars, ifVars, gcVars>>

\* The most calls on the driver in a behaviour.
MaxGcmCalls == 2

maxNumLabels == 10
maxTimeseriesPerRequest == 200

\* The metric names in use.
GcmNames == {"a", "b"}

\* The longest list of descriptors given to AddMetrics: one for each name.
MaxDescriptors == Cardinality(GcmNames)

\* The descriptors given to AddMetrics: a name and a number of labels.
Descriptors == [name : GcmNames, labels : {maxNumLabels, maxNumLabels + 1}]

\* The lists of metrics given to PushMetrics, each by how many of its metrics have
\* a given name and a Value that is, or is not, an int64.
MetricLists == [GcmNames \X BOOLEAN -> {0, 1, maxTimeseriesPerRequest}]

\* len(metrics)
RECURSIVE SumOver(_, _)
SumOver(metrics, keys) ==
    IF keys = {} THEN 0
    ELSE LET k == CHOOSE x \in keys : TRUE
         IN  metrics[k] + SumOver(metrics, keys \ {k})

len(metrics) == SumOver(metrics, DOMAIN metrics)

\* The same test with the limit one higher.
tooManyLoose(metrics) == len(metrics) > maxTimeseriesPerRequest + 1

\* PushMetrics' first check
tooMany(metrics) == len(metrics) > maxTimeseriesPerRequest

\* PushMetrics' checks, in the order they are made: the length of the list, then
\* every name against exportedMetrics, then every value's type.
pushError(exported, metrics) ==
    IF tooMany(metrics) THEN "too many"
    ELSE IF \E k \in DOMAIN metrics : metrics[k] > 0 /\ k[1] \notin exported THEN "unknown"
    ELSE IF \E k \in DOMAIN metrics : metrics[k] > 0 /\ ~k[2] THEN "non-int64"
    ELSE "none"

\* AddMetrics' loop from descriptor i on: a descriptor with too many labels ends
\* the call before its request; a request that fails ends the call; a descriptor is
\* put in exportedMetrics after its request has succeeded.
RECURSIVE addFrom(_, _, _, _, _)
addFrom(exported, sent, metrics, oks, i) ==
    IF i > Len(metrics) THEN [exported |-> exported, sent |-> sent, err |-> "none"]
    ELSE IF metrics[i].labels > maxNumLabels
    THEN [exported |-> exported, sent |-> sent, err |-> "labels"]
    ELSE LET request == [kind |-> "metricDescriptors", name |-> metrics[i].name,
                         ok |-> oks[i]]
         IN  IF ~oks[i]
             THEN [exported |-> exported, sent |-> Append(sent, request),
                   err |-> "request"]
             ELSE addFrom(exported \cup {metrics[i].name}, Append(sent, request),
                          metrics, oks, i + 1)

\* NewDriver, when it succeeds
InitGcm ==
    /\ MgrInit(GeneralCfg) /\ AggIdle /\ MainIdle /\ StoreIdle
    /\ HkIdle /\ KsIdle /\ ApiIdle /\ MtIdle /\ ExpIdle
    /\ KnIdle /\ IfIdle /\ GcIdle
    /\ gcmExported = {}
    /\ gcmSent = <<>>
    /\ gcmRet = [n |-> 0, op |-> "none", metrics |-> <<>>, err |-> "none"]

\* gcmDriver.AddMetrics
AddMetrics ==
    /\ gcmRet.n < MaxGcmCalls
    /\ \E l \in 0..MaxDescriptors : \E metrics \in [1..l -> Descriptors] :
       \E oks \in [1..l -> BOOLEAN] :
        LET out == addFrom(gcmExported, gcmSent, metrics, oks, 1)
        IN  /\ gcmExported' = out.exported
            /\ gcmSent' = out.sent
            /\ gcmRet' = [n |-> gcmRet.n + 1, op |-> "AddMetrics", metrics |-> metrics,
                          err |-> out.err]
    /\ UNCHANGED notGcm

\* gcmDriver.PushMetrics: the three checks, then refreshToken, which asks for a
\* token when the present one has expired and returns nil in every case, then the
\* write request, whose error is returned.
PushMetrics ==
    /\ gcmRet.n < MaxGcmCalls
    /\ \E metrics \in MetricLists : \E expired \in BOOLEAN : \E ok \in BOOLEAN :
        LET err == pushError(gcmExported, metrics)
            token == IF expired THEN <<[kind |-> "token", name |-> "", ok |-> TRUE]>>
                     ELSE <<>>
        IN  /\ gcmSent' = IF err # "none" THEN gcmSent
                          ELSE gcmSent \o token \o
                               <<[kind |-> "timeseries:write", name |-> "", ok |-> ok]>>
            /\ gcmRet' = [n |-> gcmRet.n + 1, op |-> "PushMetrics", metrics |-> metrics,
                          err |-> IF err # "none" THEN err
                                  ELSE IF ok THEN "none" ELSE "request"]
    /\ UNCHANGED <<notGcm, gcmExported>>

NextGcm == AddMetrics \/ PushMetrics

SpecGcm == InitGcm /\ [][NextGcm]_vars

\* The names whose descriptor request has succeeded so far.
Registered(sent) ==
    {sent[i].name : i \in {j \in 1..Len(sent) :
                              sent[j].kind = "metricDescriptors" /\ sent[j].ok}}

\* C38: a PushMetrics call that is given more than 200 metrics, or a metric whose
\* name has had no successful descriptor request in an earlier AddMetrics, or a
\* metric whose value is not an int64, returns an error and sends nothing; and the
\* names in exportedMetrics are always names whose descriptor request succeeded.
C38_PushChecksBeforeSending ==
    /\ [](gcmExported \subseteq Registered(gcmSent))
    /\ [][(gcmRet'.n # gcmRet.n /\ gcmRet'.op = "PushMetrics") =>
            LET metrics == gcmRet'.metrics
            IN  (\/ len(metrics) > 200
                 \/ \E k \in DOMAIN metrics :
                        metrics[k] > 0 /\ k[1] \notin Registered(gcmSent)
                 \/ \E k \in DOMAIN metrics : metrics[k] > 0 /\ ~k[2])
                => (gcmRet'.err # "none" /\ gcmSent' = gcmSent /\
                    gcmExported' = gcmExported)]_vars

\* AddMetrics has registered one name and its request for the other has failed, and
\* a PushMetrics call that was given 201 int64 metrics, 200 of them of the registered
\* name, has returned the error of the first check and has sent nothing.
C38_Witness ==
    /\ gcmRet.op = "PushMetrics"
    /\ gcmRet.err = "too many"
    /\ gcmExported = {"a"}
    /\ Len(gcmSent) = 2
    /\ gcmRet.metrics = [k \in GcmNames \X BOOLEAN |->
                            IF k = <<"a", TRUE>> THEN maxTimeseriesPerRequest
                            ELSE IF k = <<"b", TRUE>> THEN 1 ELSE 0]

====
